---- MODULE Spec2Model ----
(***************************************************************************)
(* The task-scoped tool server of the terminal-bench scenario and the      *)
(* adapter that creates one per task:                                      *)
(*   scenarios/terminal_bench/src/adapters/a2a_adapter.py   (A2AAdapter)   *)
(*   scenarios/terminal_bench/src/green_agent/task_mcp_server.py           *)
(*                                                        (TaskMCPServer)  *)
(*                                                                         *)
(* Spec     : NumTasks harness threads; each constructs an A2AAdapter and  *)
(*            calls perform_task, which starts a TaskMCPServer whose       *)
(*            uvicorn run-loop is a thread of its own.                     *)
(* SpecExec : calls of the tool handler call_tool and of                   *)
(*            _execute_bash_command against a docker environment.          *)
(***************************************************************************)
EXTENDS Integers, Sequences, FiniteSets, TLC

\* ------------------------------------------------------------------ bounds

\* Harness threads (trials) that run concurrently in one process.
NumTasks == 2

\* Harness threads that run under SpecServer, where other processes of the
\* host open and close listeners as well.
NumServers == 1

\* ------------------------------------------------------- program constants

\* _next_port = None, _port_lock = None: no port, no Lock object.
None == 0

\* settings.mcp_base_port, the smallest base an adapter is configured with.
BasePort == 8000

\* for i in range(20): the readiness probes of perform_task.
RetryBudget == 20

\* The largest max_num_steps a direct caller of ask_agent_to_solve passes.
MaxTurns == 3

\* max_num_steps of ask_agent_to_solve as both entry points call it.
DefaultMaxNumSteps == 30

\* The largest max_iterations a caller of solve_task_with_llm_and_mcp passes.
MaxIterations == 2

\* The largest number of events a streamed reply is made of.
MaxEvents == 3

\* The largest number of tokens of an instruction.
MaxInstruction == 2

Tasks == 1 .. NumTasks

\* Every port a task can be given: the counter starts at a base and is
\* incremented once per allocation.
Ports == BasePort .. (BasePort + NumTasks)

VARIABLES
    \* class attributes of A2AAdapter, shared by all threads
    next_port,        \* A2AAdapter._next_port: None or a port
    port_lock,        \* A2AAdapter._port_lock: None or the id of a Lock object
    \* per harness thread t
    pc,               \* position of t in __init__ / perform_task / shutdown
    mcp_base_port,    \* self.mcp_base_port of the adapter t constructs
    held,             \* the Lock object t holds (None: none)
    port,             \* local variable port of perform_task (None: not read yet)
    incr_tmp,         \* the value `_next_port += 1` loaded before its store
    probes,           \* inside the loop: how many is_ready() probes failed
    saw_ready,        \* the loop was left through `break`
    response,         \* the text _send_to_agent returned, in words; <<>>: none yet
    raised,           \* an exception is propagating out of perform_task
    result,           \* "none", "NONE", "UNKNOWN_AGENT_ERROR", "raised"
    \* the TaskMCPServer of thread t
    uvicorn_server,   \* self.uvicorn_server is set
    should_exit,      \* self.uvicorn_server.should_exit
    server_thread,    \* "none", "unstarted", "starting", "listening", "exited"
    \* environment
    foreign,          \* ports some other process listens on
    \* history
    shutdown_state,   \* shutdown(): "none", "called", "returned", "raised"
    join_timed_out,   \* join(timeout=2.0) returned with the thread alive
    sent,             \* the task description was sent to the solver
    \* one TaskMCPServer answering tool invocations, one at a time (SpecExec)
    docker_installed,  \* the docker binary can be spawned on the host
    container_running, \* self.container_name names a running container
    ex_pc,            \* "idle", "spawn" (before create_subprocess_exec), "wait"
    ex_name,          \* call_tool's name
    ex_arguments,     \* call_tool's arguments: [has_command, command]
    ex_command,       \* _execute_bash_command's command
    ex_ran,           \* docker exec was spawned for this invocation
    ex_exc,           \* the exception raised inside _execute_bash_command
    ex_result,        \* the dict _execute_bash_command returned
    ex_status,        \* call_tool: "none", "running", "returned", "raised"
    ex_content,       \* the list of TextContent call_tool returned
    \* one conversation driven by ask_agent_to_solve (SpecDriver)
    entry,            \* the caller: "absent", "direct", "execute", "start_tau_battle"
    g_pc,             \* "absent", "loop", "await", "break", "returned", "raised"
    max_num_steps,    \* the parameter max_num_steps
    context_id,       \* the local context_id (None: not adopted)
    sent_context_id,  \* the context_id argument of the last send_message
    next_green_message, \* "task_description", "tool_call_result", "user_message"
    sent_count,       \* calls of my_a2a.send_message so far
    step_count,       \* calls of env.step so far
    white_reply,      \* the reply last received
    action_name,      \* name of the action last applied: "none", "respond", "tool"
    reward,           \* the local reward: 0 is 0.0, 1 is 1.0
    env_done,         \* env_response.done of the last step
    solve_error,      \* what made ask_agent_to_solve raise ("none": nothing)
    entry_outcome,    \* what the caller ended with
    reset_info,       \* env_reset_res.info.model_dump()
    info,             \* the local dict info
    applied_infos,    \* the info of every env.step so far, in turn order
    observation,      \* env_response.observation of the last step
    next_observation, \* the observation next_green_message carries
    sent_message,     \* the message last handed to my_a2a.send_message
    \* one run of solve_task_with_llm_and_mcp (SpecLoop)
    l_pc,             \* "absent", "llm", "tools", "returned", "raised"
    max_iterations,   \* the parameter max_iterations
    iteration,        \* the loop variable (0: loop not entered)
    messages,         \* the transcript
    pending,          \* tool calls of the last reply not yet executed
    llm_calls,        \* calls of chat.completions.create so far
    tool_invocations, \* calls of session.call_tool so far
    assistant_msg,    \* the reply last received from the backend
    final_text,       \* the returned string
    loop_error,       \* what made solve_task_with_llm_and_mcp raise
    \* one call of send_message_to_agent (SpecStream)
    s_pc,             \* "absent", "streaming", "returned", "raised"
    received,         \* the events the stream has yielded so far
    chunks,           \* the local list chunks
    stream_response,  \* the returned string, as a sequence of characters
    \* one request handled by LLMWhiteAgentExecutor.execute (SpecSession)
    w_pc,             \* where execute and MCPConnection are
    sse_context,      \* "none", "unopened", "open", "closed", "close_failed"
    session,          \* the same for the ClientSession
    catalog_requests, \* the calls of session.list_tools so far
    openai_tools,     \* "none", or "catalog" once solve has converted it
    w_outcome,        \* "none", "completed", "failed"
    \* one task description, formatted and parsed again (SpecUrl)
    u_pc,             \* "absent", "format", "extract", "done"
    instruction,      \* the instruction of the task, in tokens
    leased_port,      \* the port of the task's tool server
    task_message,          \* what _format_message returned, in tokens
    mcp_url           \* what the solver took for the server address

classVars == <<next_port, port_lock>>
allocVars == <<mcp_base_port, held, port, incr_tmp>>
taskVars == <<probes, saw_ready, response, raised, result, sent>>
serverVars == <<uvicorn_server, should_exit, server_thread>>
histVars == <<shutdown_state, join_timed_out>>

execVars == <<docker_installed, container_running, ex_pc, ex_name, ex_arguments,
              ex_command, ex_ran, ex_exc, ex_result, ex_status, ex_content>>

adapterVars == <<next_port, port_lock, pc, mcp_base_port, held, port, incr_tmp,
                 probes, saw_ready, response, raised, result, uvicorn_server,
                 should_exit, server_thread, foreign, shutdown_state,
                 join_timed_out, sent>>

driverVars == <<entry, g_pc, max_num_steps, context_id, sent_context_id,
                next_green_message, sent_count, step_count, white_reply,
                action_name, reward, env_done, solve_error, entry_outcome,
                reset_info, info, applied_infos, observation,
                next_observation, sent_message>>

frameVars == <<observation, next_observation, sent_message>>

infoVars == <<reset_info, info, applied_infos>>

loopVars == <<l_pc, max_iterations, iteration, messages, pending, llm_calls,
              tool_invocations, assistant_msg, final_text, loop_error>>

streamVars == <<s_pc, received, chunks, stream_response>>

sessionVars == <<w_pc, sse_context, session, catalog_requests, openai_tools,
                 w_outcome>>

urlVars == <<u_pc, instruction, leased_port, task_message, mcp_url>>

vars == <<adapterVars, execVars, driverVars, loopVars, streamVars, sessionVars,
          urlVars>>

\* What the steps of the adapter and of its server's lifecycle leave alone.
outsideAdapter == <<execVars, driverVars, loopVars, streamVars, sessionVars,
    urlVars>>

\* What the steps of the tool handler leave alone; the solver's loop, which
\* calls the handler, is framed where the handler's steps are composed.
outsideExec == <<adapterVars, driverVars, streamVars, sessionVars,
    urlVars>>

\* What the steps of the conversation driver leave alone.
outsideDriver == <<adapterVars, execVars, loopVars, streamVars, sessionVars,
    urlVars>>

\* What the steps of the solver's tool-call loop leave alone.
outsideLoop == <<adapterVars, driverVars, streamVars, sessionVars,
    urlVars>>

\* What the steps of send_message_to_agent leave alone.
outsideStream == <<adapterVars, execVars, driverVars, loopVars, sessionVars,
    urlVars>>

\* What the steps of execute and of MCPConnection leave alone; entering
\* solve sets up the loop's variables.
outsideSession == <<adapterVars, execVars, driverVars, streamVars, urlVars>>

\* What formatting and parsing a task description leave alone.
outsideUrl == <<adapterVars, execVars, driverVars, loopVars, streamVars,
                sessionVars>>

\* A dict of _execute_bash_command not yet returned, an exception not raised.
NoResult == [command |-> "", returncode |-> 0, stdout |-> <<>>, stderr |-> <<>>]

NoExc == [cls |-> "none", text |-> <<>>]

\* The server constructed and no tool invocation under way, on a host with
\* or without the docker binary and with or without the container.
ExecInit(docker, container) ==
    /\ docker_installed = docker
    /\ container_running = container
    /\ ex_pc = "idle"
    /\ ex_name = ""
    /\ ex_arguments = [has_command |-> FALSE, command |-> ""]
    /\ ex_command = ""
    /\ ex_ran = FALSE
    /\ ex_exc = NoExc
    /\ ex_result = NoResult
    /\ ex_status = "none"
    /\ ex_content = <<>>

\* No reply received yet.
NoReply == [kind |-> "none", context_id |-> None, text_parts |-> 0,
            decision |-> "none"]

\* The keys of an info dict and the values they take; Absent marks a key
\* the dict does not have.
Keys == {"task", "source"}

InfoValues == {"x", "y"}

Absent == "<absent>"

Infos == [Keys -> InfoValues \cup {Absent}]

\* The info of the reset and of a step of the environment of one task.
TaskResetInfo == [k \in Keys |-> IF k = "task" THEN "x" ELSE Absent]

TaskStepInfo == [k \in Keys |-> IF k = "source" THEN "y" ELSE Absent]

\* ask_agent_to_solve entered by the caller `who` with max_num_steps `n` and
\* an environment whose reset returns the info `ri`, up to the head of its
\* loop; "absent": no conversation is driven.
DriverInitWith(who, n, ri) ==
    /\ reset_info = ri
    /\ info = ri
    /\ applied_infos = <<>>
    /\ observation = "none"
    /\ next_observation = "none"
    /\ sent_message = [frame |-> "none", observation |-> "none"]
    /\ entry = who
    /\ g_pc = IF who = "absent" THEN "absent" ELSE "loop"
    /\ max_num_steps = n
    /\ context_id = None
    /\ sent_context_id = None
    /\ next_green_message = "task_description"
    /\ sent_count = 0
    /\ step_count = 0
    /\ white_reply = NoReply
    /\ action_name = "none"
    /\ reward = 0
    /\ env_done = FALSE
    /\ solve_error = "none"
    /\ entry_outcome = "none"

DriverInit(who, n) == DriverInitWith(who, n, TaskResetInfo)

\* The reply of the backend not yet received.
NoAssistantMsg == [content |-> "", tool_calls |-> <<>>]

\* The transcript solve_task_with_llm_and_mcp starts with.
InitialMessages == <<[role |-> "system"], [role |-> "user"]>>

\* solve_task_with_llm_and_mcp entered with max_iterations `n`, up to the
\* head of its loop; "absent": no solver runs; "session": execute has yet
\* to connect and to call it.
LoopInit(who, n) ==
    /\ l_pc = CASE who = "absent" -> "absent"
               [] who = "session" -> "unentered"
               [] OTHER -> "llm"
    /\ max_iterations = n
    /\ iteration = 0
    /\ messages = IF who = "solve" THEN InitialMessages ELSE <<>>
    /\ pending = <<>>
    /\ llm_calls = 0
    /\ tool_invocations = 0
    /\ assistant_msg = NoAssistantMsg
    /\ final_text = ""
    /\ loop_error = "none"

\* execute entered, up to `async with connect_to_mcp(mcp_url)`; "absent":
\* no request is handled.
SessionInit(who) ==
    /\ w_pc = IF who = "absent" THEN "absent" ELSE "sse"
    /\ sse_context = "none"
    /\ session = "none"
    /\ catalog_requests = 0
    /\ openai_tools = "none"
    /\ w_outcome = "none"

\* No task description is formatted.
UrlAbsent ==
    /\ u_pc = "absent"
    /\ instruction = <<>>
    /\ leased_port = None
    /\ task_message = <<>>
    /\ mcp_url = <<>>

\* send_message_to_agent entered, up to the head of its `async for`;
\* "absent": no message is sent this way.
StreamInit(who) ==
    /\ s_pc = IF who = "absent" THEN "absent" ELSE "streaming"
    /\ received = <<>>
    /\ chunks = <<>>
    /\ stream_response = <<>>

\* The state of the process before any adapter is constructed, with the
\* harness threads of `active` about to construct theirs with the bases
\* `bases`; a thread outside `active` never runs.
InitWith(active, bases) ==
    /\ next_port = None
    /\ port_lock = None
    /\ pc = [t \in Tasks |-> IF t \in active THEN "init_check" ELSE "absent"]
    /\ mcp_base_port = bases
    /\ held = [t \in Tasks |-> None]
    /\ port = [t \in Tasks |-> None]
    /\ incr_tmp = [t \in Tasks |-> None]
    /\ probes = [t \in Tasks |-> 0]
    /\ saw_ready = [t \in Tasks |-> FALSE]
    /\ response = [t \in Tasks |-> <<>>]
    /\ raised = [t \in Tasks |-> FALSE]
    /\ result = [t \in Tasks |-> "none"]
    /\ uvicorn_server = [t \in Tasks |-> FALSE]
    /\ should_exit = [t \in Tasks |-> FALSE]
    /\ server_thread = [t \in Tasks |-> "none"]
    /\ foreign = {}
    /\ shutdown_state = [t \in Tasks |-> "none"]
    /\ join_timed_out = [t \in Tasks |-> FALSE]
    /\ sent = [t \in Tasks |-> FALSE]

\* Every adapter takes its base from settings.mcp_base_port.
Init ==
    /\ InitWith(Tasks, [t \in Tasks |-> BasePort])
    /\ ExecInit(TRUE, TRUE)
    /\ DriverInit("absent", 0)
    /\ LoopInit("absent", 0)
    /\ StreamInit("absent")
    /\ SessionInit("absent")
    /\ UrlAbsent

\* ------------------------------------------------- A2AAdapter.__init__

\* if A2AAdapter._next_port is None:
InitCheck(t) ==
    /\ pc[t] = "init_check"
    /\ pc' = [pc EXCEPT ![t] = IF next_port = None THEN "init_port" ELSE "lock"]
    /\ UNCHANGED <<classVars, allocVars, taskVars, serverVars, histVars,
                   foreign, outsideAdapter>>

\* A2AAdapter._next_port = self.mcp_base_port
InitPort(t) ==
    /\ pc[t] = "init_port"
    /\ next_port' = mcp_base_port[t]
    /\ pc' = [pc EXCEPT ![t] = "init_lock"]
    /\ UNCHANGED <<port_lock, allocVars, taskVars, serverVars, histVars,
                   foreign, outsideAdapter>>

\* An initialisation that keeps a lock that is already there.
InitLockKeep(t) ==
    /\ pc[t] = "init_lock"
    /\ port_lock' = IF port_lock = None THEN t ELSE port_lock
    /\ pc' = [pc EXCEPT ![t] = "lock"]
    /\ UNCHANGED <<next_port, allocVars, taskVars, serverVars, histVars,
                   foreign, outsideAdapter>>

\* A2AAdapter._port_lock = threading.Lock(): a new Lock object, named by the
\* thread that made it.
InitLock(t) ==
    /\ pc[t] = "init_lock"
    /\ port_lock' = t
    /\ pc' = [pc EXCEPT ![t] = "lock"]
    /\ UNCHANGED <<next_port, allocVars, taskVars, serverVars, histVars,
                   foreign, outsideAdapter>>

\* ---------------------------------- A2AAdapter.perform_task: allocation

LockFree(l) == \A t \in Tasks : held[t] # l

\* with A2AAdapter._port_lock: the attribute is read, then the object
\* acquired. With the attribute still None the statement raises and
\* perform_task ends before a server exists.
AcquireLock(t) ==
    /\ pc[t] = "lock"
    /\ \/ /\ port_lock = None
          /\ pc' = [pc EXCEPT ![t] = "done"]
          /\ raised' = [raised EXCEPT ![t] = TRUE]
          /\ result' = [result EXCEPT ![t] = "raised"]
          /\ UNCHANGED held
       \/ /\ port_lock # None
          /\ LockFree(port_lock)
          /\ held' = [held EXCEPT ![t] = port_lock]
          /\ pc' = [pc EXCEPT ![t] = "read"]
          /\ UNCHANGED <<raised, result>>
    /\ UNCHANGED <<classVars, mcp_base_port, port, incr_tmp, probes, saw_ready,
                   response, sent, serverVars, histVars, foreign,
                   outsideAdapter>>

\* port = A2AAdapter._next_port
ReadPort(t) ==
    /\ pc[t] = "read"
    /\ port' = [port EXCEPT ![t] = next_port]
    /\ pc' = [pc EXCEPT ![t] = "incr_load"]
    /\ UNCHANGED <<classVars, mcp_base_port, held, incr_tmp, taskVars,
                   serverVars, histVars, foreign, outsideAdapter>>

\* A2AAdapter._next_port += 1, the load of the attribute
IncrLoad(t) ==
    /\ pc[t] = "incr_load"
    /\ incr_tmp' = [incr_tmp EXCEPT ![t] = next_port]
    /\ pc' = [pc EXCEPT ![t] = "incr_store"]
    /\ UNCHANGED <<classVars, mcp_base_port, held, port, taskVars, serverVars,
                   histVars, foreign, outsideAdapter>>

Incremented(p) == p + 1

\* A2AAdapter._next_port += 1, the store of the sum
IncrStore(t) ==
    /\ pc[t] = "incr_store"
    /\ next_port' = Incremented(incr_tmp[t])
    /\ incr_tmp' = [incr_tmp EXCEPT ![t] = None]
    /\ pc' = [pc EXCEPT ![t] = "unlock"]
    /\ UNCHANGED <<port_lock, mcp_base_port, held, port, taskVars, serverVars,
                   histVars, foreign, outsideAdapter>>

\* The end of the with block releases the lock; mcp_url is formatted and
\* create_task_mcp_server(container, port) builds the server (no listener,
\* uvicorn_server = None, server_thread = None).
ReleaseAndCreate(t) ==
    /\ pc[t] = "unlock"
    /\ held' = [held EXCEPT ![t] = None]
    /\ pc' = [pc EXCEPT ![t] = "start"]
    /\ UNCHANGED <<classVars, mcp_base_port, port, incr_tmp, taskVars,
                   serverVars, histVars, foreign, outsideAdapter>>

\* The TaskMCPServer of t exists: the allocation is through and
\* create_task_mcp_server has returned.
created(t) ==
    /\ port[t] # None
    /\ pc[t] \notin {"incr_load", "incr_store", "unlock"}

\* start() has been called on the server of t.
start_called(t) == created(t) /\ pc[t] # "start"

\* --------------------------------------------------------- TaskMCPServer

\* Something accepts TCP connections on port p: the run-loop of a task's
\* server, or another process.
PortOpen(p) ==
    \/ p \in foreign
    \/ \E s \in Tasks : server_thread[s] = "listening" /\ port[s] = p

\* is_ready without its `if not self.uvicorn_server` guard.
is_readyUnguarded(t) == PortOpen(port[t])

\* is_ready probing the port after its own.
is_readyNextPort(t) ==
    IF ~uvicorn_server[t] THEN FALSE ELSE PortOpen(port[t] + 1)

\* TaskMCPServer.is_ready: False without a uvicorn server, else whether a
\* TCP connection to ("localhost", self.port) succeeds.
is_ready(t) ==
    IF ~uvicorn_server[t] THEN FALSE ELSE PortOpen(port[t])

\* self.container_name of the server of t: the container of t's session,
\* assigned once in __init__ and read by every docker exec.
container_name(t) == t

\* The run-loop of server t answers tool invocations: its listener is bound.
Serving(t) == server_thread[t] = "listening"

\* Cleanup on the happy path only: an exception leaves perform_task at once.
RaiseTargetNoFinally == "done"

\* perform_task wraps everything after the server's creation in
\* try: ... finally: mcp_server.shutdown(); an exception raised inside
\* continues at the finally block.
RaiseTarget == "finally"

\* TaskMCPServer.start. uvicorn.Config / uvicorn.Server may raise before
\* self.uvicorn_server is assigned; Thread.start() may raise (RuntimeError:
\* can't start new thread) after self.server_thread is assigned; otherwise the
\* daemon thread runs asyncio.run(uvicorn_server.serve()) and start returns
\* after its sleep.
Start(t) ==
    /\ pc[t] = "start"
    /\ \/ /\ raised' = [raised EXCEPT ![t] = TRUE]
          /\ pc' = [pc EXCEPT ![t] = RaiseTarget]
          /\ UNCHANGED <<uvicorn_server, server_thread>>
       \/ /\ uvicorn_server' = [uvicorn_server EXCEPT ![t] = TRUE]
          /\ server_thread' = [server_thread EXCEPT ![t] = "unstarted"]
          /\ raised' = [raised EXCEPT ![t] = TRUE]
          /\ pc' = [pc EXCEPT ![t] = RaiseTarget]
       \/ /\ uvicorn_server' = [uvicorn_server EXCEPT ![t] = TRUE]
          /\ server_thread' = [server_thread EXCEPT ![t] = "starting"]
          /\ pc' = [pc EXCEPT ![t] = "poll"]
          /\ UNCHANGED raised
    /\ UNCHANGED <<classVars, allocVars, probes, saw_ready, response, result,
                   sent, should_exit, histVars, foreign, outsideAdapter>>

\* One round of `for i in range(20)`: a successful probe breaks out of the
\* loop; a failed one sleeps and, after the last round, falls out of it. The
\* loop counter is not read after the loop and is cleared on leaving it.
Probe(t) ==
    /\ pc[t] = "poll"
    /\ IF is_ready(t)
       THEN /\ saw_ready' = [saw_ready EXCEPT ![t] = TRUE]
            /\ probes' = [probes EXCEPT ![t] = 0]
            /\ pc' = [pc EXCEPT ![t] = "send"]
       ELSE /\ IF probes[t] + 1 = RetryBudget
               THEN /\ probes' = [probes EXCEPT ![t] = 0]
                    /\ pc' = [pc EXCEPT ![t] = "send"]
               ELSE /\ probes' = [probes EXCEPT ![t] = @ + 1]
                    /\ pc' = [pc EXCEPT ![t] = "poll"]
            /\ UNCHANGED saw_ready
    /\ UNCHANGED <<classVars, allocVars, response, raised, result, sent,
                   serverVars, histVars, foreign, outsideAdapter>>

\* The texts send_message_to_agent may return, in words: one without
\* "Error:" and one with it in the middle.
AgentTexts == {<<"Task", "done.">>, <<"The", "log", "says", "Error:", "x">>}

\* f"Error: {str(e)}", what _send_to_agent returns for an Exception.
ExceptionText == <<"Error:", "Connection", "refused">>

\* word in text
Contains(text, word) == \E i \in 1 .. Len(text) : text[i] = word

\* message = self._format_message(...); response = asyncio.run(
\* self._send_to_agent(message)). _send_to_agent turns every Exception into
\* the text "Error: ..."; what is no Exception (KeyboardInterrupt, a failure
\* of asyncio.run itself) is raised.
Send(t) ==
    /\ pc[t] = "send"
    /\ sent' = [sent EXCEPT ![t] = TRUE]
    /\ \/ /\ \E r \in AgentTexts \cup {ExceptionText} :
                response' = [response EXCEPT ![t] = r]
          /\ pc' = [pc EXCEPT ![t] = "log"]
          /\ UNCHANGED raised
       \/ /\ raised' = [raised EXCEPT ![t] = TRUE]
          /\ pc' = [pc EXCEPT ![t] = RaiseTarget]
          /\ UNCHANGED response
    /\ UNCHANGED <<classVars, allocVars, probes, saw_ready, result, serverVars,
                   histVars, foreign, outsideAdapter>>

\* A check of the start of the response only.
FailureOfPrefix(r) ==
    IF r # <<>> /\ r[1] = "Error:" THEN "UNKNOWN_AGENT_ERROR" ELSE "NONE"

\* FailureMode.UNKNOWN_AGENT_ERROR if "Error:" in response else NONE
FailureOf(r) == IF Contains(r, "Error:") THEN "UNKNOWN_AGENT_ERROR" ELSE "NONE"

\* The interaction log is written (mkdir, open, write may raise OSError),
\* then the AgentResult is built and returned through the finally block.
Log(t) ==
    /\ pc[t] = "log"
    /\ \/ /\ result' = [result EXCEPT ![t] = FailureOf(response[t])]
          /\ pc' = [pc EXCEPT ![t] = "finally"]
          /\ UNCHANGED raised
       \/ /\ raised' = [raised EXCEPT ![t] = TRUE]
          /\ pc' = [pc EXCEPT ![t] = RaiseTarget]
          /\ UNCHANGED result
    /\ UNCHANGED <<classVars, allocVars, probes, saw_ready, response, sent,
                   serverVars, histVars, foreign, outsideAdapter>>

\* What perform_task leaves with once the finally block is through: the
\* exception that was propagating, else the AgentResult.
Outcome(t) == IF raised[t] THEN "raised" ELSE result[t]

\* shutdown joining the thread without asking the run-loop to exit.
SignalExitDropped(flags, t) == flags

\* A shutdown that flips the flag of the run-loop.
SignalExitToggle(flags, t) == [flags EXCEPT ![t] = ~@]

\* self.uvicorn_server.should_exit = True
SignalExit(flags, t) == [flags EXCEPT ![t] = TRUE]

\* TaskMCPServer.shutdown up to the join: nothing without a uvicorn server;
\* else should_exit = True, and the join follows if there is a thread object.
ShutdownSignal(t) ==
    /\ pc[t] = "finally"
    /\ IF uvicorn_server[t]
       THEN /\ should_exit' = SignalExit(should_exit, t)
            /\ IF server_thread[t] # "none"
               THEN /\ pc' = [pc EXCEPT ![t] = "join"]
                    /\ shutdown_state' = [shutdown_state EXCEPT ![t] = "called"]
                    /\ UNCHANGED result
               ELSE /\ pc' = [pc EXCEPT ![t] = "done"]
                    /\ shutdown_state' = [shutdown_state EXCEPT ![t] = "returned"]
                    /\ result' = [result EXCEPT ![t] = Outcome(t)]
       ELSE /\ pc' = [pc EXCEPT ![t] = "done"]
            /\ shutdown_state' = [shutdown_state EXCEPT ![t] = "returned"]
            /\ result' = [result EXCEPT ![t] = Outcome(t)]
            /\ UNCHANGED should_exit
    /\ UNCHANGED <<classVars, allocVars, probes, saw_ready, response, raised,
                   sent, uvicorn_server, server_thread, join_timed_out, foreign,
                   outsideAdapter>>

\* self.server_thread.join(timeout=2.0): returns when the thread has ended or
\* when the timeout runs out with the thread alive; on a Thread object that
\* was never started it raises RuntimeError, which leaves shutdown and
\* perform_task.
Join(t) ==
    /\ pc[t] = "join"
    /\ pc' = [pc EXCEPT ![t] = "done"]
    /\ IF server_thread[t] = "unstarted"
       THEN /\ shutdown_state' = [shutdown_state EXCEPT ![t] = "raised"]
            /\ raised' = [raised EXCEPT ![t] = TRUE]
            /\ result' = [result EXCEPT ![t] = "raised"]
            /\ UNCHANGED join_timed_out
       ELSE /\ shutdown_state' = [shutdown_state EXCEPT ![t] = "returned"]
            /\ join_timed_out' = [join_timed_out EXCEPT ![t] =
                                    server_thread[t] # "exited"]
            /\ result' = [result EXCEPT ![t] = Outcome(t)]
            /\ UNCHANGED raised
    /\ UNCHANGED <<classVars, allocVars, probes, saw_ready, response, sent,
                   serverVars, foreign, outsideAdapter>>

\* ------------------------------------- the run-loop thread of a server

\* uvicorn's startup binds 0.0.0.0:port: with the port taken the bind fails
\* and the thread ends; else the listener accepts connections.
ThreadBind(t) ==
    /\ server_thread[t] = "starting"
    /\ server_thread' = [server_thread EXCEPT ![t] =
                           IF PortOpen(port[t]) THEN "exited" ELSE "listening"]
    /\ UNCHANGED <<classVars, pc, allocVars, taskVars, uvicorn_server,
                   should_exit, histVars, foreign, outsideAdapter>>

\* uvicorn's main loop sees should_exit, closes its listener and the thread
\* ends.
ThreadExit(t) ==
    /\ server_thread[t] = "listening"
    /\ should_exit[t]
    /\ server_thread' = [server_thread EXCEPT ![t] = "exited"]
    /\ UNCHANGED <<classVars, pc, allocVars, taskVars, uvicorn_server,
                   should_exit, histVars, foreign, outsideAdapter>>

\* ------------------------------------------------------- other processes

\* Another process of the host starts listening on a free port. Only a
\* port some task was given is of interest: what listens elsewhere is seen
\* by nothing here, and a listener opened before the port was given acts as
\* one opened right after.
ForeignBind(p) ==
    /\ foreign = {}
    /\ \E t \in Tasks : port[t] = p
    /\ ~PortOpen(p)
    /\ foreign' = {p}
    /\ UNCHANGED <<classVars, pc, allocVars, taskVars, serverVars, histVars,
                   outsideAdapter>>

\* It stops listening.
ForeignClose(p) ==
    /\ p \in foreign
    /\ foreign' = foreign \ {p}
    /\ UNCHANGED <<classVars, pc, allocVars, taskVars, serverVars, histVars,
                   outsideAdapter>>

\* The program alone.
Next ==
    \E t \in Tasks :
        \/ InitCheck(t)
        \/ InitPort(t)
        \/ InitLock(t)
        \/ AcquireLock(t)
        \/ ReadPort(t)
        \/ IncrLoad(t)
        \/ IncrStore(t)
        \/ ReleaseAndCreate(t)
        \/ Start(t)
        \/ Probe(t)
        \/ Send(t)
        \/ Log(t)
        \/ ShutdownSignal(t)
        \/ Join(t)
        \/ ThreadBind(t)
        \/ ThreadExit(t)

Spec == Init /\ [][Next]_vars

\* The constructors and the allocation steps alone: every task up to the
\* creation of its server.
NextAlloc ==
    \E t \in Tasks :
        \/ InitCheck(t)
        \/ InitPort(t)
        \/ InitLock(t)
        \/ AcquireLock(t)
        \/ ReadPort(t)
        \/ IncrLoad(t)
        \/ IncrStore(t)
        \/ ReleaseAndCreate(t)

SpecAlloc == Init /\ [][NextAlloc]_vars

\* The program on a host whose other processes open and close listeners;
\* NumServers harness threads run.
InitServer ==
    /\ InitWith({t \in Tasks : t <= NumServers}, [t \in Tasks |-> BasePort])
    /\ ExecInit(TRUE, TRUE)
    /\ DriverInit("absent", 0)
    /\ LoopInit("absent", 0)
    /\ StreamInit("absent")
    /\ SessionInit("absent")
    /\ UrlAbsent

NextServer ==
    \/ Next
    \/ \E p \in Ports :
        \/ ForeignBind(p)
        \/ ForeignClose(p)

SpecServer == InitServer /\ [][NextServer]_vars

\* TaskMCPServer.shutdown called once more, by a caller that still holds
\* the server after perform_task's own call has returned: the same
\* statements, nothing without a uvicorn server, else should_exit = True
\* and the join, which raises on a Thread that was never started.
ShutdownAgain(t) ==
    /\ pc[t] = "done"
    /\ shutdown_state[t] = "returned"
    /\ IF uvicorn_server[t]
       THEN /\ should_exit' = SignalExit(should_exit, t)
            /\ IF server_thread[t] = "unstarted"
               THEN /\ shutdown_state' = [shutdown_state EXCEPT ![t] = "raised"]
                    /\ UNCHANGED join_timed_out
               ELSE /\ shutdown_state' =
                          [shutdown_state EXCEPT ![t] = "returned_again"]
                    /\ join_timed_out' =
                          [join_timed_out EXCEPT ![t] =
                              server_thread[t] \notin {"none", "exited"}]
       ELSE /\ shutdown_state' = [shutdown_state EXCEPT ![t] = "returned_again"]
            /\ UNCHANGED <<should_exit, join_timed_out>>
    /\ UNCHANGED <<classVars, pc, allocVars, taskVars, uvicorn_server,
                   server_thread, foreign, outsideAdapter>>

NextShutdown ==
    \/ NextServer
    \/ \E t \in Tasks : ShutdownAgain(t)

\* The program of SpecServer with a caller that shuts a server down again.
SpecShutdown == InitServer /\ [][NextShutdown]_vars

\* ------------------------------- TaskMCPServer: the tool handler (SpecExec)

\* The tool names a client may send, the one registered tool among them.
ToolNames == {"execute_bash_command", "list_files"}

\* The commands a client may send.
Commands == {"echo hi", "pwd", "nonexistent_cmd", "false", "cat blob.bin"}

\* arguments: with or without the key "command", whose value may be empty.
ArgumentChoices ==
    {[has_command |-> FALSE, command |-> ""]}
        \cup {[has_command |-> TRUE, command |-> c] : c \in Commands \cup {""}}

\* Output is a sequence of chunks of bytes; this chunk is no valid UTF-8.
InvalidBytes == {"<ff>"}

\* bytes.decode("utf-8", errors="replace"): what cannot be decoded becomes
\* U+FFFD, the rest is kept.
Decode(bs) ==
    [i \in 1 .. Len(bs) |-> IF bs[i] \in InvalidBytes THEN "<U+FFFD>" ELSE bs[i]]

\* What `docker exec -w /app <container> bash -c <command>` ends with: docker
\* itself fails (exit code 1) when the container does not run; else bash's
\* exit code and output for the command.
ProcessOutcome(command) ==
    IF ~container_running
    THEN [returncode |-> 1, stdout |-> <<>>,
          stderr |-> <<"Error response from daemon: No such container">>]
    ELSE CASE command = "echo hi" ->
                [returncode |-> 0, stdout |-> <<"hi", "\n">>, stderr |-> <<>>]
           [] command = "pwd" ->
                [returncode |-> 0, stdout |-> <<"/app", "\n">>, stderr |-> <<>>]
           [] command = "nonexistent_cmd" ->
                [returncode |-> 127, stdout |-> <<>>,
                 stderr |-> <<"bash: line 1: nonexistent_cmd: command not found">>]
           [] command = "cat blob.bin" ->
                [returncode |-> 0, stdout |-> <<"<ff>", "ok">>, stderr |-> <<>>]
           [] OTHER ->
                [returncode |-> 1, stdout |-> <<>>, stderr |-> <<>>]

\* Subclasses of Exception that spawning or waiting may raise, and what is
\* raised into an await of a cancelled task: asyncio.CancelledError, a
\* BaseException that is no Exception.
ExceptionClasses == {"FileNotFoundError", "OSError"}

FileNotFound ==
    [cls |-> "FileNotFoundError",
     text |-> <<"[Errno 2] No such file or directory: 'docker'">>]

TooManyFiles == [cls |-> "OSError", text |-> <<"[Errno 24] Too many open files">>]

Cancelled == [cls |-> "CancelledError", text |-> <<>>]

\* An except clause naming FileNotFoundError alone.
CaughtOnlyFileNotFound(e) == e.cls = "FileNotFoundError"

\* except Exception as e
Caught(e) == e.cls \in ExceptionClasses

\* A try body that reports every ended process as an execution failure.
SuccessResultMinusOne(command, proc) ==
    [command |-> command, returncode |-> -1,
     stdout |-> Decode(proc.stdout), stderr |-> Decode(proc.stderr)]

\* The dict of the try body: the process's exit code and its decoded output.
SuccessResult(command, proc) ==
    [command |-> command, returncode |-> proc.returncode,
     stdout |-> Decode(proc.stdout), stderr |-> Decode(proc.stderr)]

\* An except body that does not echo the command.
FailureResultNoEcho(command, e) ==
    [command |-> "", returncode |-> -1, stdout |-> <<>>, stderr |-> e.text]

\* The dict of the except body.
FailureResult(command, e) ==
    [command |-> command, returncode |-> -1, stdout |-> <<>>, stderr |-> e.text]

\* An error text that leaves the tool name out.
ErrorContentUnnamed(message, name) ==
    [type |-> "text", kind |-> "error", message |-> message, name |-> "",
     object |-> NoResult]

\* TextContent(type="text", text=...): the text is an error message or the
\* JSON text json.dumps(result, indent=2) of a dict.
ErrorContent(message, name) ==
    [type |-> "text", kind |-> "error", message |-> message, name |-> name,
     object |-> NoResult]

JsonContent(r) ==
    [type |-> "text", kind |-> "json", message |-> "", name |-> "", object |-> r]

\* A test that takes only an absent key for a missing command.
CommandAbsent(arguments) == ~arguments.has_command

\* `not command` for command = arguments.get("command"): the key is absent
\* (None) or its value is the empty string.
NotCommand(arguments) == ~arguments.has_command \/ arguments.command = ""

\* call_tool up to its await: an unknown tool name and a missing or empty
\* command are answered at once; else _execute_bash_command is entered.
CallTool(name, arguments) ==
    /\ ex_pc = "idle"
    /\ ex_name' = name
    /\ ex_arguments' = arguments
    /\ ex_ran' = FALSE
    /\ ex_exc' = NoExc
    /\ ex_result' = NoResult
    /\ IF name # "execute_bash_command"
       THEN /\ ex_content' = <<ErrorContent("Error: Unknown tool ", name)>>
            /\ ex_status' = "returned"
            /\ ex_command' = ""
            /\ ex_pc' = "idle"
       ELSE IF NotCommand(arguments)
       THEN /\ ex_content' = <<ErrorContent("Error: Command is required", "")>>
            /\ ex_status' = "returned"
            /\ ex_command' = ""
            /\ ex_pc' = "idle"
       ELSE /\ ex_content' = <<>>
            /\ ex_status' = "running"
            /\ ex_command' = arguments.command
            /\ ex_pc' = "spawn"
    /\ UNCHANGED <<docker_installed, container_running, outsideExec>>

\* _execute_bash_command leaves with the exception e raised in its try body:
\* the except clause turns it into the failure dict, which call_tool returns
\* as JSON; what the clause does not catch leaves call_tool as well.
Raise(e) ==
    /\ ex_exc' = e
    /\ ex_pc' = "idle"
    /\ IF Caught(e)
       THEN /\ ex_result' = FailureResult(ex_command, e)
            /\ ex_content' = <<JsonContent(FailureResult(ex_command, e))>>
            /\ ex_status' = "returned"
       ELSE /\ ex_status' = "raised"
            /\ UNCHANGED <<ex_result, ex_content>>

\* await asyncio.create_subprocess_exec("docker", "exec", ...): without the
\* docker binary it raises FileNotFoundError; with it the process starts, or
\* the spawn fails for lack of resources, or the task is cancelled.
ExecSpawn ==
    /\ ex_pc = "spawn"
    /\ \/ /\ ~docker_installed
          /\ Raise(FileNotFound)
          /\ UNCHANGED ex_ran
       \/ /\ docker_installed
          /\ \E e \in {TooManyFiles, Cancelled} : Raise(e)
          /\ UNCHANGED ex_ran
       \/ /\ docker_installed
          /\ ex_ran' = TRUE
          /\ ex_pc' = "wait"
          /\ UNCHANGED <<ex_exc, ex_result, ex_status, ex_content>>
    /\ UNCHANGED <<docker_installed, container_running, ex_name, ex_arguments,
                   ex_command, outsideExec>>

\* stdout, stderr = await process.communicate(): the process ends and the
\* dict is returned, or the wait raises, or the task is cancelled.
ExecWait ==
    /\ ex_pc = "wait"
    /\ \/ /\ ex_result' = SuccessResult(ex_command, ProcessOutcome(ex_command))
          /\ ex_content' =
                <<JsonContent(SuccessResult(ex_command, ProcessOutcome(ex_command)))>>
          /\ ex_status' = "returned"
          /\ ex_pc' = "idle"
          /\ UNCHANGED ex_exc
       \/ \E e \in {TooManyFiles, Cancelled} : Raise(e)
    /\ UNCHANGED <<docker_installed, container_running, ex_name, ex_arguments,
                   ex_command, ex_ran, outsideExec>>

\* The container of the task is stopped (the harness tears the trial down).
ContainerStops ==
    /\ container_running
    /\ container_running' = FALSE
    /\ UNCHANGED <<docker_installed, ex_pc, ex_name, ex_arguments, ex_command,
                   ex_ran, ex_exc, ex_result, ex_status, ex_content, outsideExec>>

NextExec ==
    \/ \E name \in ToolNames, arguments \in ArgumentChoices :
          CallTool(name, arguments) /\ UNCHANGED loopVars
    \/ ExecSpawn /\ UNCHANGED loopVars
    \/ ExecWait /\ UNCHANGED loopVars
    \/ ContainerStops /\ UNCHANGED loopVars

\* Tool invocations handled one after another by one server, on any host.
InitExec ==
    /\ InitWith({}, [t \in Tasks |-> BasePort])
    /\ \E docker, container \in BOOLEAN : ExecInit(docker, container)
    /\ DriverInit("absent", 0)
    /\ LoopInit("absent", 0)
    /\ StreamInit("absent")
    /\ SessionInit("absent")
    /\ UrlAbsent

SpecExec == InitExec /\ [][NextExec]_vars

\* ------------------------------------------ ask_agent_to_solve (SpecDriver)

\* Context ids a reply may carry; a Message may carry none.
ContextIds == {None, 71, 72}

\* What my_a2a.send_message ends with: it raises (transport), or returns a
\* JSON-RPC error, or a Task, or a Message with a context id, some number of
\* text parts and, in the text, no <json> block, several of them, one that
\* is no JSON, one that is no Action, or a respond or tool action.
Decisions == {"none", "several", "malformed", "bad_action", "respond", "tool"}

Replies ==
    {[kind |-> k, context_id |-> None, text_parts |-> 0, decision |-> "none"] :
        k \in {"transport", "rpc_error", "task"}}
        \cup {[kind |-> "message", context_id |-> c, text_parts |-> n,
               decision |-> d] :
                c \in ContextIds, n \in 0 .. 2, d \in Decisions}

\* The observations of the environment of one task, and the one it mostly
\* gives.
Observations == {"obs_a", "obs_b"}

TaskObservation == "obs_a"

\* What env.step returns: a reward, the done flag, an info and an
\* observation.
EnvResponses ==
    [reward : {0, 1}, done : BOOLEAN, info : {TaskStepInfo},
     observation : {TaskObservation}]

\* The same for environments of any info.
EnvResponsesAnyInfo ==
    [reward : {0, 1}, done : BOOLEAN, info : Infos,
     observation : {TaskObservation}]

\* The same for environments of any observation.
EnvResponsesAnyObservation ==
    [reward : {0, 1}, done : BOOLEAN, info : {TaskStepInfo},
     observation : Observations]

\* A framing that takes every action for a tool call.
FramedAsToolResult(name, obs) ==
    [frame |-> "tool_call_result", observation |-> obs]

\* next_green_message for the observation obs of the step that applied the
\* action called name: RESPOND_ACTION_NAME is "respond".
Framed(name, obs) ==
    [frame |-> IF name # "respond" THEN "tool_call_result" ELSE "user_message",
     observation |-> obs]

\* A merge in which the older value of a key wins.
MergeKeepOld(a, b) == [k \in Keys |-> IF a[k] # Absent THEN a[k] ELSE b[k]]

\* {**a, **b}
Merge(a, b) == [k \in Keys |-> IF b[k] # Absent THEN b[k] ELSE a[k]]

\* parse_tags(white_text), as the specification words it: exactly one
\* decision block is extracted from the reply; none, or more than one, is
\* a fatal parse error.
parse_tags(r) ==
    CASE r.decision = "none" -> "no_block"
      [] r.decision = "several" -> "several_blocks"
      [] OTHER -> "one_block"

\* A context check that accepts every reply.
ContextMismatchIgnored(r) == FALSE

\* assert context_id == res_result.context_id, in the else branch of
\* `if context_id is None`
ContextMismatch(r) == context_id # None /\ r.context_id # context_id

\* A loop body that takes the first text part and the first block it finds.
FailureFirstFound(r) ==
    CASE r.kind = "transport" -> "transport"
      [] r.kind = "rpc_error" -> "not_success_response"
      [] r.kind = "task" -> "not_message"
      [] ContextMismatch(r) -> "context_mismatch"
      [] r.text_parts = 0 -> "text_parts"
      [] r.decision = "none" -> "no_json_tag"
      [] r.decision = "malformed" -> "json_decode"
      [] r.decision = "bad_action" -> "bad_action"
      [] OTHER -> "none"

\* The statement of the loop body that raises for the reply r, "none" if the
\* reply gets as far as env.step.
Failure(r) ==
    CASE r.kind = "transport" -> "transport"
      [] r.kind = "rpc_error" -> "not_success_response"
      [] r.kind = "task" -> "not_message"
      [] ContextMismatch(r) -> "context_mismatch"
      [] r.text_parts # 1 -> "text_parts"
      [] parse_tags(r) = "no_block" -> "no_json_tag"
      [] parse_tags(r) = "several_blocks" -> "several_json_tags"
      [] r.decision = "malformed" -> "json_decode"
      [] r.decision = "bad_action" -> "bad_action"
      [] OTHER -> "none"

\* The failures raised before the context id of the reply is looked at.
BeforeAdoption == {"transport", "not_success_response", "not_message"}

\* A loop that ends as soon as the respond action was applied.
StopsAfterOnRespond(r, e) == r.decision = "respond" \/ e.done

\* A loop without its break.
StopsAfterNever(r, e) == FALSE

\* if env_response.done: break
StopsAfter(r, e) == e.done

\* A conversation that takes over the context id of every reply.
AdoptedLatest(current, replied) == replied

\* if context_id is None: context_id = res_result.context_id
Adopted(current, replied) == IF current = None THEN replied ELSE current

\* A range that runs once more than asked.
InRangeInclusive(n, stop) == n <= stop

\* for _ in range(max_num_steps), with n iterations begun
InRange(n, stop) == n < stop

\* The head of the loop with iterations left: the next message is sent with
\* the context id held.
DriverSend ==
    /\ g_pc = "loop"
    /\ InRange(sent_count, max_num_steps)
    /\ sent_count' = sent_count + 1
    /\ sent_context_id' = context_id
    /\ sent_message' = [frame |-> next_green_message,
                        observation |-> next_observation]
    /\ g_pc' = "await"
    /\ UNCHANGED <<entry, max_num_steps, context_id, next_green_message,
                   step_count, white_reply, action_name, reward, env_done,
                   solve_error, entry_outcome, infoVars, observation,
                   next_observation, outsideDriver>>

\* The rest of the loop body for the reply r and, if the reply decodes to an
\* action, the environment's response e to it.
DriverReply(r, e) ==
    /\ g_pc = "await"
    /\ white_reply' = r
    /\ context_id' = IF Failure(r) \in BeforeAdoption
                     THEN context_id
                     ELSE Adopted(context_id, r.context_id)
    /\ IF Failure(r) # "none"
       THEN /\ solve_error' = Failure(r)
            /\ g_pc' = "raised"
            /\ UNCHANGED <<step_count, action_name, reward, env_done,
                           next_green_message, info, applied_infos,
                           observation, next_observation>>
       ELSE /\ step_count' = step_count + 1
            /\ info' = Merge(info, e.info)
            /\ applied_infos' = Append(applied_infos, e.info)
            /\ action_name' = r.decision
            /\ reward' = e.reward
            /\ env_done' = e.done
            /\ observation' = e.observation
            /\ next_green_message' = Framed(r.decision, e.observation).frame
            /\ next_observation' = Framed(r.decision, e.observation).observation
            /\ g_pc' = IF StopsAfter(r, e) THEN "break" ELSE "loop"
            /\ UNCHANGED solve_error
    /\ UNCHANGED <<entry, max_num_steps, sent_context_id, sent_count,
                   entry_outcome, reset_info, sent_message, outsideDriver>>

\* The loop is over, by break or with its range used up: return SolveResult.
DriverReturn ==
    /\ \/ g_pc = "break"
       \/ g_pc = "loop" /\ ~InRange(sent_count, max_num_steps)
    /\ g_pc' = "returned"
    /\ UNCHANGED <<entry, max_num_steps, context_id, sent_context_id,
                   next_green_message, sent_count, step_count, white_reply,
                   action_name, reward, env_done, solve_error, entry_outcome,
                   infoVars, frameVars, outsideDriver>>

\* An execute that reports a failed conversation like start_tau_battle does.
AfterRaiseAllReported(who) == "error_reported"

\* What the caller does with an exception of ask_agent_to_solve: execute has
\* no handler, start_tau_battle returns {"ok": false, "error": str(e)}.
AfterRaise(who) ==
    IF who = "start_tau_battle" THEN "error_reported" ELSE "exception_escaped"

\* res.reward == 1, reported by both entry points.
AfterReturn(r) == IF r = 1 THEN "success_reported" ELSE "no_success_reported"

\* The caller's code after `await ask_agent_to_solve(...)`.
EntryFinish ==
    /\ g_pc \in {"returned", "raised"}
    /\ entry_outcome = "none"
    /\ entry_outcome' = IF g_pc = "raised" THEN AfterRaise(entry)
                        ELSE AfterReturn(reward)
    /\ UNCHANGED <<entry, g_pc, max_num_steps, context_id, sent_context_id,
                   next_green_message, sent_count, step_count, white_reply,
                   action_name, reward, env_done, solve_error, infoVars,
                   frameVars, outsideDriver>>

NextDriver ==
    \/ DriverSend
    \/ \E r \in Replies, e \in EnvResponses : DriverReply(r, e)
    \/ DriverReturn
    \/ EntryFinish

\* One conversation: a direct call with any max_num_steps up to MaxTurns, or
\* one of the two entry points, which pass 30.
InitDriver ==
    /\ InitWith({}, [t \in Tasks |-> BasePort])
    /\ ExecInit(TRUE, TRUE)
    /\ LoopInit("absent", 0)
    /\ StreamInit("absent")
    /\ SessionInit("absent")
    /\ UrlAbsent
    /\ \/ \E n \in 0 .. MaxTurns : DriverInit("direct", n)
       \/ \E who \in {"execute", "start_tau_battle"} :
             DriverInit(who, DefaultMaxNumSteps)

SpecDriver == InitDriver /\ [][NextDriver]_vars

\* ---------------------------------- the info of a conversation (SpecInfo)

\* Replies that decode to an action, and one that does not.
InfoReplies ==
    {[kind |-> "message", context_id |-> 71, text_parts |-> 1, decision |-> d] :
        d \in {"tool", "respond", "malformed"}}

\* What env.reset may return as info.
ResetInfos ==
    {TaskResetInfo, [k \in Keys |-> Absent], [k \in Keys |-> "y"]}

NextInfo ==
    \/ DriverSend
    \/ \E r \in InfoReplies, e \in EnvResponsesAnyInfo : DriverReply(r, e)
    \/ DriverReturn
    \/ EntryFinish

\* One conversation with an environment of any reset info and step infos.
InitInfo ==
    /\ InitWith({}, [t \in Tasks |-> BasePort])
    /\ ExecInit(TRUE, TRUE)
    /\ LoopInit("absent", 0)
    /\ StreamInit("absent")
    /\ SessionInit("absent")
    /\ UrlAbsent
    /\ \E n \in 0 .. MaxTurns, ri \in ResetInfos : DriverInitWith("direct", n, ri)

SpecInfo == InitInfo /\ [][NextInfo]_vars

\* ------------------------------ the framing of the messages (SpecFrame)

NextFrame ==
    \/ DriverSend
    \/ \E r \in InfoReplies, e \in EnvResponsesAnyObservation : DriverReply(r, e)
    \/ DriverReturn
    \/ EntryFinish

\* One conversation with an environment of any observation.
InitFrame ==
    /\ InitWith({}, [t \in Tasks |-> BasePort])
    /\ ExecInit(TRUE, TRUE)
    /\ LoopInit("absent", 0)
    /\ StreamInit("absent")
    /\ SessionInit("absent")
    /\ UrlAbsent
    /\ \E n \in 0 .. MaxTurns : DriverInit("direct", n)

SpecFrame == InitFrame /\ [][NextFrame]_vars

\* --------------------------------- solve_task_with_llm_and_mcp (SpecLoop)

\* tool_call.function.arguments is a JSON text: here what json.loads makes of
\* it, or a text that is no JSON.
MalformedArguments == [malformed |-> TRUE]

EchoCall ==
    [name |-> "execute_bash_command",
     arguments |-> [has_command |-> TRUE, command |-> "echo hi"]]

\* The tool calls a reply of the backend may request.
ToolCallChoices ==
    {EchoCall,
     [name |-> "execute_bash_command",
      arguments |-> [has_command |-> TRUE, command |-> "nonexistent_cmd"]],
     [name |-> "execute_bash_command",
      arguments |-> [has_command |-> FALSE, command |-> ""]],
     [name |-> "list_files",
      arguments |-> [has_command |-> TRUE, command |-> "echo hi"]],
     [name |-> "execute_bash_command", arguments |-> MalformedArguments]}

\* The replies of the backend: a text, which may be empty or None (here ""),
\* and a list of tool calls, which may be empty or None (here <<>>).
Contents == {"", "All done."}

BackendReplies ==
    [content : Contents,
     tool_calls : {<<>>} \cup {<<c>> : c \in ToolCallChoices}
                         \cup {<<EchoCall, c>> : c \in ToolCallChoices}]

\* The backend gives every tool call an id of its own.
WithIds(calls, it) ==
    [i \in 1 .. Len(calls) |->
        [id |-> <<it, i>>, name |-> calls[i].name,
         arguments |-> calls[i].arguments]]

\* A result text that leaves the output section out.
FormatResultExitOnly(r) ==
    <<[label |-> "Command: ", text |-> <<r.command>>],
      [label |-> "Exit code: ", text |-> <<r.returncode>>]>>

\* A return statement that hands back the reply's text as it is.
FinalAnswerVerbatim(content) == content

\* return assistant_msg.content or "Task completed."
FinalAnswer(content) == IF content = "" THEN "Task completed." ELSE content

\* The string returned after the loop.
IterationLimitMessage == "Task completed (reached iteration limit)."

\* json.loads(result.content[0].text): the dict of a JSON text; the error
\* texts of call_tool are no JSON.
JsonLoads(item) ==
    IF item.kind = "json"
    THEN [ok |-> TRUE, value |-> item.object]
    ELSE [ok |-> FALSE, value |-> NoResult]

\* result_msg for a dict without the key "error": the command and the exit
\* code, then the output and the error sections, each only if not empty.
FormatResult(r) ==
    <<[label |-> "Command: ", text |-> <<r.command>>],
      [label |-> "Exit code: ", text |-> <<r.returncode>>]>>
        \o (IF r.stdout # <<>>
            THEN <<[label |-> "Output:", text |-> r.stdout]>> ELSE <<>>)
        \o (IF r.stderr # <<>>
            THEN <<[label |-> "Error:", text |-> r.stderr]>> ELSE <<>>)

\* The assistant turn appended for the reply m.
AssistantTurn(m, it) ==
    [role |-> "assistant", content |-> m.content,
     tool_calls |-> WithIds(m.tool_calls, it)]

\* A tool-result turn that carries the id of the first call of its
\* iteration, whichever call it answers.
ToolTurnFirstId(tc, r) ==
    [role |-> "tool", tool_call_id |-> <<tc.id[1], 1>>,
     content |-> FormatResult(r)]

\* The tool-result turn appended for the call tc.
ToolTurn(tc, r) ==
    [role |-> "tool", tool_call_id |-> tc.id, content |-> FormatResult(r)]

\* solve_task_with_llm_and_mcp leaves with an exception.
LoopRaise(what) ==
    /\ l_pc' = "raised"
    /\ loop_error' = what
    /\ UNCHANGED <<max_iterations, iteration, messages, pending, llm_calls,
                   tool_invocations, assistant_msg, final_text>>

\* One pass of the loop head with iterations left: the backend is called
\* and raises, or replies with m; the reply is appended, and without tool
\* calls its text is returned.
LoopLLM(m) ==
    /\ l_pc = "llm"
    /\ iteration < max_iterations
    /\ iteration' = iteration + 1
    /\ llm_calls' = llm_calls + 1
    /\ assistant_msg' = m
    /\ messages' = Append(messages, AssistantTurn(m, iteration + 1))
    /\ IF m.tool_calls = <<>>
       THEN /\ final_text' = FinalAnswer(m.content)
            /\ l_pc' = "returned"
            /\ pending' = <<>>
       ELSE /\ pending' = WithIds(m.tool_calls, iteration + 1)
            /\ l_pc' = "tools"
            /\ UNCHANGED final_text
    /\ UNCHANGED <<max_iterations, tool_invocations, loop_error, execVars,
                   outsideLoop>>

\* chat.completions.create raises.
LoopBackendFails ==
    /\ l_pc = "llm"
    /\ iteration < max_iterations
    /\ l_pc' = "raised"
    /\ loop_error' = "backend"
    /\ iteration' = iteration + 1
    /\ llm_calls' = llm_calls + 1
    /\ UNCHANGED <<max_iterations, messages, pending, tool_invocations,
                   assistant_msg, final_text, execVars, outsideLoop>>

\* The range of the loop is used up: the fixed message is returned.
LoopLimit ==
    /\ l_pc = "llm"
    /\ iteration >= max_iterations
    /\ final_text' = IterationLimitMessage
    /\ l_pc' = "returned"
    /\ UNCHANGED <<max_iterations, iteration, messages, pending, llm_calls,
                   tool_invocations, assistant_msg, loop_error, execVars,
                   outsideLoop>>

\* The next requested tool call: its arguments are parsed and the call is
\* sent to the tool server, whose call_tool handles it.
LoopInvoke ==
    /\ l_pc = "tools"
    /\ pending # <<>>
    /\ IF pending[1].arguments = MalformedArguments
       THEN /\ LoopRaise("json_arguments")
            /\ UNCHANGED execVars
       ELSE /\ CallTool(pending[1].name, pending[1].arguments)
            /\ tool_invocations' = tool_invocations + 1
            /\ l_pc' = "call"
            /\ UNCHANGED <<max_iterations, iteration, messages, pending,
                           llm_calls, assistant_msg, final_text, loop_error>>
    /\ UNCHANGED outsideLoop

\* session.call_tool is over: a handler that raised fails the call; else
\* call_mcp_tool parses the first content item and the loop appends the
\* tool-result turn.
LoopToolResult ==
    /\ l_pc = "call"
    /\ ex_pc = "idle"
    /\ IF ex_status = "raised"
       THEN LoopRaise("transport")
       ELSE IF ~JsonLoads(ex_content[1]).ok
       THEN LoopRaise("json_result")
       ELSE /\ messages' = Append(messages,
                  ToolTurn(pending[1], JsonLoads(ex_content[1]).value))
            /\ pending' = Tail(pending)
            /\ l_pc' = IF Tail(pending) = <<>> THEN "llm" ELSE "tools"
            /\ UNCHANGED <<max_iterations, iteration, llm_calls,
                           tool_invocations, assistant_msg, final_text,
                           loop_error>>
    /\ UNCHANGED <<execVars, outsideLoop>>

NextLoop ==
    \/ \E m \in BackendReplies : LoopLLM(m)
    \/ LoopBackendFails
    \/ LoopLimit
    \/ LoopInvoke
    \/ LoopToolResult
    \/ ExecSpawn /\ UNCHANGED loopVars
    \/ ExecWait /\ UNCHANGED loopVars
    \/ ContainerStops /\ UNCHANGED loopVars

\* One solver run with any max_iterations up to MaxIterations, against the
\* tool server of a task whose container runs.
InitLoop ==
    /\ InitWith({}, [t \in Tasks |-> BasePort])
    /\ ExecInit(TRUE, TRUE)
    /\ DriverInit("absent", 0)
    /\ \E n \in 0 .. MaxIterations : LoopInit("solve", n)
    /\ StreamInit("absent")
    /\ SessionInit("absent")
    /\ UrlAbsent

SpecLoop == InitLoop /\ [][NextLoop]_vars

\* ------------------------------------- send_message_to_agent (SpecStream)

\* A text is a sequence of characters; these are whitespace for str.strip.
Whitespace == {" ", "\n"}

\* The texts a TextPart may carry.
Texts == {<<>>, <<" ">>, <<"a">>, <<"\n", "b", " ">>}

\* A part is a TextPart or another part (DataPart, FilePart) with content.
DataPart == [kind |-> "data", text |-> <<"d">>]

Parts == {[kind |-> "text", text |-> x] : x \in Texts} \cup {DataPart}

PartLists ==
    {<<>>} \cup {<<p>> : p \in Parts}
           \cup {<<[kind |-> "text", text |-> <<"a">>], DataPart>>,
                 <<DataPart, [kind |-> "text", text |-> <<"\n", "b", " ">>]>>}

\* What the stream yields: artifact updates, status updates with or without
\* a message, events of another kind (a Message), and error responses.
StreamEvents ==
    {[kind |-> "artifact", has_message |-> FALSE, parts |-> ps] : ps \in PartLists}
        \cup {[kind |-> "status", has_message |-> TRUE, parts |-> ps] :
                 ps \in PartLists}
        \cup {[kind |-> "status", has_message |-> FALSE, parts |-> <<>>],
              [kind |-> "message", has_message |-> FALSE,
               parts |-> <<[kind |-> "text", text |-> <<"a">>]>>],
              [kind |-> "error", has_message |-> FALSE, parts |-> <<>>]}

IsTextPart(p) == p.kind = "text"

\* The texts of the TextParts of a list of parts, in order.
TextsOf(ps) ==
    [i \in 1 .. Len(SelectSeq(ps, IsTextPart)) |-> SelectSeq(ps, IsTextPart)[i].text]

\* A loop body that reads artifact updates only.
ChunksOfArtifactOnly(ev) ==
    IF ev.kind = "artifact" THEN TextsOf(ev.parts) ELSE <<>>

\* What one pass of the `async for` body appends to chunks.
ChunksOf(ev) ==
    CASE ev.kind = "artifact" -> TextsOf(ev.parts)
      [] ev.kind = "status" /\ ev.has_message -> TextsOf(ev.parts)
      [] OTHER -> <<>>

\* "".join(chunks)
RECURSIVE JoinChunks(_)
JoinChunks(cs) == IF cs = <<>> THEN <<>> ELSE Head(cs) \o JoinChunks(Tail(cs))

\* str.strip(): leading and trailing whitespace removed.
RECURSIVE StripLeft(_)
StripLeft(x) ==
    IF x # <<>> /\ Head(x) \in Whitespace THEN StripLeft(Tail(x)) ELSE x

RECURSIVE StripRight(_)
StripRight(x) ==
    IF x # <<>> /\ x[Len(x)] \in Whitespace
    THEN StripRight(SubSeq(x, 1, Len(x) - 1))
    ELSE x

Strip(x) == StripRight(StripLeft(x))

\* The text returned for an empty reply.
NoResponseText == <<"No response from agent.">>

\* "".join(chunks).strip() or "No response from agent."
Response(cs) == IF Strip(JoinChunks(cs)) = <<>> THEN NoResponseText ELSE Strip(JoinChunks(cs))

\* The stream yields the event ev and the loop body runs for it.
StreamEvent(ev) ==
    /\ s_pc = "streaming"
    /\ Len(received) < MaxEvents
    /\ received' = Append(received, ev)
    /\ chunks' = chunks \o ChunksOf(ev)
    /\ UNCHANGED <<s_pc, stream_response, outsideStream>>

\* The stream ends: the response is built and returned.
StreamEnd ==
    /\ s_pc = "streaming"
    /\ stream_response' = Response(chunks)
    /\ s_pc' = "returned"
    /\ UNCHANGED <<received, chunks, outsideStream>>

\* The stream raises (the connection breaks, the timeout passes): the
\* exception leaves send_message_to_agent through its finally block.
StreamFails ==
    /\ s_pc = "streaming"
    /\ s_pc' = "raised"
    /\ UNCHANGED <<received, chunks, stream_response, outsideStream>>

NextStream ==
    \/ \E ev \in StreamEvents : StreamEvent(ev)
    \/ StreamEnd
    \/ StreamFails

\* One message sent and its reply streamed back.
InitStream ==
    /\ InitWith({}, [t \in Tasks |-> BasePort])
    /\ ExecInit(TRUE, TRUE)
    /\ DriverInit("absent", 0)
    /\ LoopInit("absent", 0)
    /\ StreamInit("send")
    /\ SessionInit("absent")
    /\ UrlAbsent

SpecStream == InitStream /\ [][NextStream]_vars

\* --------------------- LLMWhiteAgentExecutor.execute (SpecSession)

\* An exception leaves MCPConnection.__aenter__: `async with` calls
\* __aexit__ only for a context that was entered, so execute continues at
\* its except clause.
SetupRaise ==
    /\ w_pc' = "report"
    /\ UNCHANGED <<catalog_requests, openai_tools, w_outcome>>

\* self.sse_context = sse_client(sse_url); await self.sse_context.__aenter__()
SseEnter ==
    /\ w_pc = "sse"
    /\ \/ /\ sse_context' = "open"
          /\ w_pc' = "session"
          /\ UNCHANGED <<catalog_requests, openai_tools, w_outcome>>
       \/ /\ sse_context' = "unopened"
          /\ SetupRaise
    /\ UNCHANGED <<session, loopVars, outsideSession>>

\* self.session = ClientSession(...); await self.session.__aenter__()
SessionEnter ==
    /\ w_pc = "session"
    /\ \/ /\ session' = "open"
          /\ w_pc' = "initialize"
          /\ UNCHANGED <<catalog_requests, openai_tools, w_outcome>>
       \/ /\ session' = "unopened"
          /\ SetupRaise
    /\ UNCHANGED <<sse_context, loopVars, outsideSession>>

\* await self.session.initialize()
SessionInitialize ==
    /\ w_pc = "initialize"
    /\ \/ /\ w_pc' = "list_tools"
          /\ UNCHANGED <<catalog_requests, openai_tools, w_outcome>>
       \/ SetupRaise
    /\ UNCHANGED <<sse_context, session, loopVars, outsideSession>>

\* tools = await self.session.list_tools(), logged; return self.session
ConnectListTools ==
    /\ w_pc = "list_tools"
    /\ catalog_requests' = catalog_requests + 1
    /\ w_pc' \in {"solve", "report"}
    /\ UNCHANGED <<sse_context, session, openai_tools, w_outcome, loopVars,
                   outsideSession>>

\* A solve that is handed the catalog of the connection.
SolveEnterCached ==
    /\ w_pc = "solve"
    /\ openai_tools' = "catalog"
    /\ l_pc' = "llm"
    /\ messages' = InitialMessages
    /\ w_pc' = "solving"
    /\ UNCHANGED <<sse_context, session, catalog_requests, w_outcome,
                   max_iterations, iteration, pending, llm_calls,
                   tool_invocations, assistant_msg, final_text, loop_error,
                   outsideSession>>

\* solve_task_with_llm_and_mcp up to its loop: tools_result = await
\* mcp_session.list_tools(), converted once into openai_tools; then the
\* initial transcript. A failing list_tools raises out of solve.
SolveEnter ==
    /\ w_pc = "solve"
    /\ catalog_requests' = catalog_requests + 1
    /\ w_pc' = "solving"
    /\ \/ /\ openai_tools' = "catalog"
          /\ l_pc' = "llm"
          /\ messages' = InitialMessages
          /\ UNCHANGED loop_error
       \/ /\ l_pc' = "raised"
          /\ loop_error' = "list_tools"
          /\ UNCHANGED <<openai_tools, messages>>
    /\ UNCHANGED <<sse_context, session, w_outcome, max_iterations, iteration,
                   pending, llm_calls, tool_invocations, assistant_msg,
                   final_text, outsideSession>>

\* __aexit__, first half: the session is closed; an Exception of the close
\* is logged.
ExitSession ==
    /\ w_pc = "solving"
    /\ l_pc \in {"returned", "raised"}
    /\ session' \in {"closed", "close_failed"}
    /\ w_pc' = "exit_sse"
    /\ UNCHANGED <<sse_context, catalog_requests, openai_tools, w_outcome,
                   loopVars, outsideSession>>

\* __aexit__, second half: the SSE context is closed; an Exception of the
\* close is logged.
ExitSse ==
    /\ w_pc = "exit_sse"
    /\ sse_context' \in {"closed", "close_failed"}
    /\ w_pc' = "report"
    /\ UNCHANGED <<session, catalog_requests, openai_tools, w_outcome,
                   loopVars, outsideSession>>

\* The rest of execute: the response artifact and complete(), or, in the
\* except clause, the error artifact and failed().
ExecuteFinish ==
    /\ w_pc = "report"
    /\ w_outcome' = IF l_pc = "returned" THEN "completed" ELSE "failed"
    /\ w_pc' = "done"
    /\ UNCHANGED <<sse_context, session, catalog_requests, openai_tools,
                   loopVars, outsideSession>>

NextSession ==
    \/ SseEnter
    \/ SessionEnter
    \/ SessionInitialize
    \/ ConnectListTools
    \/ SolveEnter
    \/ \E m \in BackendReplies : LoopLLM(m)
    \/ LoopBackendFails
    \/ LoopLimit
    \/ LoopInvoke
    \/ LoopToolResult
    \/ ExecSpawn /\ UNCHANGED loopVars
    \/ ExecWait /\ UNCHANGED loopVars
    \/ ExitSession
    \/ ExitSse
    \/ ExecuteFinish

\* One request: execute connects to the tool server of a task whose
\* container runs, solves and disconnects.
InitSession ==
    /\ InitWith({}, [t \in Tasks |-> BasePort])
    /\ ExecInit(TRUE, TRUE)
    /\ DriverInit("absent", 0)
    /\ \E n \in 0 .. MaxIterations : LoopInit("session", n)
    /\ StreamInit("absent")
    /\ SessionInit("execute")
    /\ UrlAbsent

SpecSession == InitSession /\ [][NextSession]_vars

\* ------------------- the server address in the task description (SpecUrl)

\* The label of the address line, with its trailing blank.
UrlLabel == "MCP Server URL: "

\* What an instruction is made of: words, blanks, line ends, an address,
\* and the label itself.
InstructionTokens == {"fix", " ", "\n", "http://other:9000", UrlLabel}

RECURSIVE SeqsUpTo(_, _)
SeqsUpTo(S, n) ==
    IF n = 0 THEN {<<>>}
    ELSE SeqsUpTo(S, n - 1)
             \cup {Append(x, e) : x \in SeqsUpTo(S, n - 1), e \in S}

Instructions == SeqsUpTo(InstructionTokens, MaxInstruction)

\* mcp_url = f"http://localhost:{port}"
UrlOf(p) == <<"http://localhost:", ToString(p)>>

\* A2AAdapter._format_message
FormatMessage(instr, url) ==
    <<"You are being evaluated on Terminal-Bench.", "\n", "\n", "TASK: ">>
        \o instr
        \o <<"\n", "\n", UrlLabel>> \o url
        \o <<"\n", "\n", "ENVIRONMENT:", "\n",
             "- Tool: execute_bash_command (parameter: command)", "\n",
             "- Working Dir: /app (inside Docker container)", "\n", "\n",
             "Connect to MCP, execute bash commands to complete the task.">>

\* re.search(r"MCP Server URL: (.+)", text): the first place from i on at
\* which the label is followed by a character that is no line end; 0 if
\* there is none.
RECURSIVE SearchLabel(_, _)
SearchLabel(text, i) ==
    IF i >= Len(text) THEN 0
    ELSE IF text[i] = UrlLabel /\ text[i + 1] # "\n" THEN i
    ELSE SearchLabel(text, i + 1)

\* (.+): everything from i up to the end of the line.
RECURSIVE RestOfLine(_, _)
RestOfLine(text, i) ==
    IF i > Len(text) \/ text[i] = "\n" THEN <<>>
    ELSE <<text[i]>> \o RestOfLine(text, i + 1)

\* mcp_match.group(1).strip()
ExtractUrl(text) == Strip(RestOfLine(text, SearchLabel(text, 1) + 1))

\* message = self._format_message(instruction, mcp_url)
UrlFormat ==
    /\ u_pc = "format"
    /\ task_message' = FormatMessage(instruction, UrlOf(leased_port))
    /\ u_pc' = "extract"
    /\ UNCHANGED <<instruction, leased_port, mcp_url, outsideUrl>>

\* The solver's execute, or its solve_terminal_bench_task tool, looks the
\* address up in the message; without a match it reports an error.
UrlExtract ==
    /\ u_pc = "extract"
    /\ IF SearchLabel(task_message, 1) = 0
       THEN /\ u_pc' = "not_found"
            /\ UNCHANGED mcp_url
       ELSE /\ mcp_url' = ExtractUrl(task_message)
            /\ u_pc' = "done"
    /\ UNCHANGED <<instruction, leased_port, task_message, outsideUrl>>

NextUrl ==
    \/ UrlFormat
    \/ UrlExtract

\* One task of any instruction, its server on any port.
InitUrl ==
    /\ InitWith({}, [t \in Tasks |-> BasePort])
    /\ ExecInit(TRUE, TRUE)
    /\ DriverInit("absent", 0)
    /\ LoopInit("absent", 0)
    /\ StreamInit("absent")
    /\ SessionInit("absent")
    /\ u_pc = "format"
    /\ instruction \in Instructions
    /\ leased_port \in Ports
    /\ task_message = <<>>
    /\ mcp_url = <<>>

SpecUrl == InitUrl /\ [][NextUrl]_vars

\* ------------------------------------------------------------------ claims

\* A tool invocation sent to port p is answered by some task's server.
PortServed(p) == \E s \in Tasks : Serving(s) /\ port[s] = p

\* perform_task of t is past its readiness loop.
PastPoll(t) == pc[t] \in {"send", "log", "finally", "join", "done"}

\* C1: the ports taken by the allocation step are pairwise distinct and each
\* is at least the configured base port, in every interleaving of adapter
\* constructions and perform_task calls.
C1_PortsDistinctAboveBase ==
    /\ \A t1, t2 \in Tasks :
         (t1 # t2 /\ port[t1] # None /\ port[t2] # None) => port[t1] # port[t2]
    /\ \A t \in Tasks : port[t] # None => port[t] >= BasePort

\* C2: every step leaves the shared counter at least as large as it was, and
\* a port taken by the allocation step is strictly greater than every port
\* taken before it.
C2_IssuedStrictlyIncreasing ==
    [][/\ (next_port # None => next_port' >= next_port)
       /\ \A t \in Tasks :
            (port[t] = None /\ port'[t] # None) =>
                \A s \in Tasks : port[s] # None => port'[t] > port[s]]_vars

\* C3: at most one task is between the read of the counter and the write of
\* its incremented value, and all tasks inside a with block hold the same
\* Lock object.
C3_SingleCriticalSection ==
    /\ Cardinality({t \in Tasks : pc[t] \in {"incr_load", "incr_store"}}) <= 1
    /\ \A t1, t2 \in Tasks :
         (held[t1] # None /\ held[t2] # None) => held[t1] = held[t2]

\* C4: when perform_task has ended, by return or by exception, and the
\* server object had been created, shutdown() was called on it.
C4_ShutdownOnEveryExit ==
    \A t \in Tasks :
        (pc[t] = "done" /\ created(t)) => shutdown_state[t] \in {"returned", "raised"}

\* C4 witness: perform_task ended by an exception raised after the task was
\* sent, and shutdown() had run.
C4_Witness ==
    \E t \in Tasks :
        pc[t] = "done" /\ raised[t] /\ sent[t] /\ shutdown_state[t] = "returned"

\* C5 as claimed: once shutdown() has returned for a started server, nothing
\* serves tool invocations on that server's port, join timeout or not.
C5_NothingServedAfterShutdown ==
    \A t \in Tasks :
        (shutdown_state[t] = "returned" /\ uvicorn_server[t]) => ~PortServed(port[t])

\* C5 amended: once shutdown() has returned for a started server, its
\* run-loop has been told to exit, and it still serves only if the join
\* timed out.
C5_StoppedUnlessJoinTimedOut ==
    \A t \in Tasks :
        (shutdown_state[t] = "returned" /\ uvicorn_server[t]) =>
            /\ should_exit[t]
            /\ Serving(t) => join_timed_out[t]

\* C5 witness: a server that was ready, was shut down and whose thread the
\* join saw ended.
C5_Witness ==
    \E t \in Tasks :
        /\ shutdown_state[t] = "returned"
        /\ saw_ready[t]
        /\ server_thread[t] = "exited"
        /\ ~join_timed_out[t]

\* C6: shutdown() always returns: it never raises, and its join never waits
\* for a thread that does not end.
C6_ShutdownAlwaysReturns ==
    \A t \in Tasks :
        /\ shutdown_state[t] # "raised"
        /\ pc[t] = "join" => ENABLED Join(t)

\* C7: a server on which start() was never called reports is_ready() false,
\* whatever listens on its port.
C7_NotReadyBeforeStart ==
    \A t \in Tasks : (created(t) /\ ~start_called(t)) => ~is_ready(t)

\* C7 witness: a created, never started server whose port another process
\* listens on.
C7_Witness ==
    \E t \in Tasks : created(t) /\ ~start_called(t) /\ port[t] \in foreign

C9_NoSendAfterFailedStartup ==
    \A t \in Tasks : sent[t] => saw_ready[t]

\* C10 as claimed: _execute_bash_command never propagates an exception, and
\* whenever the spawn or the wait raised, it returned returncode -1, empty
\* stdout, the error text as stderr and the command it was given.
C10_NeverPropagates ==
    /\ ex_status # "raised"
    /\ (ex_exc # NoExc /\ ex_pc = "idle") =>
          ex_result = [command |-> ex_command, returncode |-> -1,
                       stdout |-> <<>>, stderr |-> ex_exc.text]

\* C10 amended: whenever the spawn or the wait raised an Exception, the call
\* returned returncode -1, empty stdout, the error text as stderr and the
\* command it was given; only what is no Exception (the CancelledError of a
\* cancelled task) propagates.
C10_ExceptionsBecomeData ==
    /\ ex_status = "raised" => ex_exc.cls \notin ExceptionClasses
    /\ (ex_exc.cls \in ExceptionClasses /\ ex_pc = "idle") =>
          /\ ex_status = "returned"
          /\ ex_result = [command |-> ex_command, returncode |-> -1,
                          stdout |-> <<>>, stderr |-> ex_exc.text]

\* C10 witness: the wait for a spawned process raised OSError and the call
\* returned.
C10_Witness ==
    /\ ex_ran
    /\ ex_exc.cls = "OSError"
    /\ ex_status = "returned"
    /\ ex_command \in Commands

\* The invocation last handled asked the registered tool for a command.
ValidInvocation ==
    /\ ex_name = "execute_bash_command"
    /\ ex_arguments.has_command
    /\ ex_arguments.command # ""

C12_UnknownToolIsErrorContent ==
    (ex_name # "" /\ ex_name # "execute_bash_command") =>
        /\ ex_status = "returned"
        /\ ex_pc = "idle"
        /\ ~ex_ran
        /\ Len(ex_content) = 1
        /\ ex_content[1].kind = "error"
        /\ ex_content[1].message = "Error: Unknown tool "
        /\ ex_content[1].name = ex_name

\* C12 witness: an unknown tool was asked to run a command and was refused.
C12_Witness ==
    /\ ex_name = "list_files"
    /\ ex_arguments.has_command
    /\ ex_arguments.command = "echo hi"
    /\ ex_status = "returned"

\* C13: every response of call_tool has exactly one content item; for a
\* valid invocation the item is the JSON object with exactly the fields
\* command, returncode, stdout and stderr, its command the requested one.
C13_SingleContentItem ==
    ex_status = "returned" =>
        /\ Len(ex_content) = 1
        /\ ValidInvocation =>
              /\ ex_content[1].kind = "json"
              /\ DOMAIN ex_content[1].object =
                    {"command", "returncode", "stdout", "stderr"}
              /\ ex_content[1].object.command = ex_arguments.command

\* C13 witness: a valid invocation answered with the dict of the except body.
C13_Witness ==
    /\ ValidInvocation
    /\ ex_status = "returned"
    /\ ex_exc.cls = "FileNotFoundError"
    /\ Len(ex_content) = 1

\* The caller is one of the two entry points of the harness.
EntryPoint == entry \in {"execute", "start_tau_battle"}

\* C14 as claimed: when the solver's first reply is the respond action, the
\* loop ends with that turn, done being signalled.
C14_RespondEndsAfterOneTurn ==
    [][(step_count = 0 /\ step_count' = 1 /\ action_name' = "respond") =>
          (sent_count' = 1 /\ env_done' /\ g_pc' = "break")]_vars

\* C14 amended: when the solver's first reply is the respond action, one
\* message was sent and one step applied, and the loop ends with that turn
\* if and only if the environment signals done for the step; else the next
\* message is a user message. A loop ended by done sends and applies nothing
\* more.
C14_OneTurnIffEnvDone ==
    [][/\ (step_count = 0 /\ step_count' = 1 /\ action_name' = "respond") =>
            /\ sent_count' = 1
            /\ g_pc' = "break" <=> env_done'
            /\ g_pc' = "loop" <=> ~env_done'
            /\ next_green_message' = "user_message"
       /\ g_pc = "break" =>
            /\ env_done
            /\ g_pc' = "returned"
            /\ sent_count' = sent_count
            /\ step_count' = step_count]_vars

\* C14 witness: a conversation with turns to spare returned after one turn,
\* its respond action answered with done.
C14_Witness ==
    /\ g_pc = "returned"
    /\ max_num_steps > 1
    /\ sent_count = 1
    /\ step_count = 1
    /\ action_name = "respond"
    /\ env_done

\* C15: a reply whose context id differs from the one adopted makes
\* ask_agent_to_solve raise on that turn, its action not applied, and after
\* the raise no message is sent and no step applied.
C15_ContextMismatchAborts ==
    [][/\ (/\ g_pc = "await"
           /\ g_pc' # "await"
           /\ context_id # None
           /\ white_reply'.kind = "message"
           /\ white_reply'.context_id # context_id) =>
              /\ g_pc' = "raised"
              /\ solve_error' = "context_mismatch"
              /\ step_count' = step_count
       /\ g_pc = "raised" =>
              /\ g_pc' = "raised"
              /\ sent_count' = sent_count
              /\ step_count' = step_count]_vars

\* C15 witness: the conversation was aborted on a later reply that carried
\* another context id, after at least one applied step.
C15_Witness ==
    /\ g_pc = "raised"
    /\ solve_error = "context_mismatch"
    /\ step_count >= 1
    /\ white_reply.context_id \notin {None, context_id}
    /\ white_reply.decision \in {"respond", "tool"}

\* C16: never more than max_num_steps messages are sent; when the loop ends
\* without done, exactly max_num_steps messages were sent and steps applied
\* and ask_agent_to_solve returns without error; with no step applied the
\* returned reward is 0.0.
C16_AtMostMaxTurns ==
    /\ sent_count <= max_num_steps
    /\ step_count <= sent_count
    /\ (g_pc = "loop" /\ sent_count = max_num_steps) =>
          /\ ENABLED DriverReturn
          /\ ~ENABLED DriverSend
    /\ (g_pc = "returned" /\ ~env_done) =>
          /\ sent_count = max_num_steps
          /\ step_count = max_num_steps
          /\ solve_error = "none"
    /\ step_count = 0 => reward = 0

\* C16 witness: a direct call used up its turns without done and returned
\* the reward of its last step.
C16_Witness ==
    /\ entry = "direct"
    /\ g_pc = "returned"
    /\ ~env_done
    /\ max_num_steps >= 2
    /\ step_count = max_num_steps
    /\ reward = 1

\* C17: a failure inside the conversation never leaves an entry point as an
\* exception; the entry point reports it as an outcome with the error text.
C17_FailuresReportedNotRaised ==
    EntryPoint =>
        /\ entry_outcome # "exception_escaped"
        /\ (solve_error # "none" /\ entry_outcome # "none") =>
              entry_outcome = "error_reported"

\* Every reply of the backend so far requested at least one tool call.
AlwaysRequestedTools ==
    \A i \in 1 .. Len(messages) :
        messages[i].role = "assistant" => messages[i].tool_calls # <<>>

\* C18 as claimed: when the first reply of the backend requests no tool
\* call, the reply's text is returned after one backend call and no tool
\* invocation.
C18_FirstReplyTextReturned ==
    (Len(messages) = 3 /\ messages[3].tool_calls = <<>>) =>
        /\ l_pc = "returned"
        /\ final_text = messages[3].content
        /\ llm_calls = 1
        /\ tool_invocations = 0

\* C18 amended: when the first reply of the backend requests no tool call,
\* solve returns after one backend call and no tool invocation, with the
\* reply's text or, for a reply without text, with "Task completed.".
C18_FirstReplyTextOrDefault ==
    (Len(messages) = 3 /\ messages[3].tool_calls = <<>>) =>
        /\ l_pc = "returned"
        /\ final_text = IF messages[3].content = ""
                        THEN "Task completed."
                        ELSE messages[3].content
        /\ llm_calls = 1
        /\ tool_invocations = 0

\* C18 witness: solve returned the text of a first reply without tool calls.
C18_Witness ==
    /\ l_pc = "returned"
    /\ Len(messages) = 3
    /\ final_text = "All done."
    /\ llm_calls = 1
    /\ tool_invocations = 0

\* C19: with a backend that requests a tool call in every reply, no answer
\* of the tool server makes solve raise, and solve returns the
\* iteration-limit message after exactly max_iterations backend calls.
C19_AlwaysToolCallsReachLimit ==
    /\ loop_error # "json_result"
    /\ (l_pc = "returned" /\ AlwaysRequestedTools) =>
          /\ llm_calls = max_iterations
          /\ final_text = IterationLimitMessage

\* The first reply requested the one call `echo hi`, the tool server
\* answered it with returncode 0, stdout "hi\n" and empty stderr, and the
\* second reply requested no tool call.
EchoScenario ==
    /\ Len(messages) = 5
    /\ messages[3].tool_calls = WithIds(<<EchoCall>>, 1)
    /\ messages[5].role = "assistant"
    /\ messages[5].tool_calls = <<>>
    /\ ex_result = [command |-> "echo hi", returncode |-> 0,
                    stdout |-> <<"hi", "\n">>, stderr |-> <<>>]

\* The tool-result turn of the echo scenario.
EchoToolTurn ==
    [role |-> "tool", tool_call_id |-> <<1, 1>>,
     content |-> <<[label |-> "Command: ", text |-> <<"echo hi">>],
                   [label |-> "Exit code: ", text |-> <<0>>],
                   [label |-> "Output:", text |-> <<"hi", "\n">>]>>]

\* C20 as claimed: in the echo scenario the result is the tool-result turn
\* of the transcript and the text of the second reply is the final answer.
C20_EchoEndToEnd ==
    EchoScenario =>
        /\ messages[4] = EchoToolTurn
        /\ l_pc = "returned"
        /\ final_text = messages[5].content

\* C20 amended: in the echo scenario the result is the tool-result turn of
\* the transcript, after one tool invocation and two backend calls, and the
\* final answer is the text of the second reply or, for a reply without
\* text, "Task completed.".
C20_EchoEndToEndOrDefault ==
    EchoScenario =>
        /\ messages[4] = EchoToolTurn
        /\ l_pc = "returned"
        /\ llm_calls = 2
        /\ tool_invocations = 1
        /\ final_text = IF messages[5].content = ""
                        THEN "Task completed."
                        ELSE messages[5].content

\* C20 witness: the echo scenario ended with the text of the second reply.
C20_Witness ==
    /\ EchoScenario
    /\ l_pc = "returned"
    /\ final_text = "All done."

\* The text fragments of the artifact-update and status-update events among
\* evs, in arrival order.
RECURSIVE StreamedFragments(_)
StreamedFragments(evs) ==
    IF evs = <<>> THEN <<>>
    ELSE (IF Head(evs).kind \in {"artifact", "status"}
          THEN [i \in 1 .. Len(SelectSeq(Head(evs).parts, IsTextPart)) |->
                   SelectSeq(Head(evs).parts, IsTextPart)[i].text]
          ELSE <<>>) \o StreamedFragments(Tail(evs))

\* C21 as claimed: the returned text is the concatenation, in arrival order,
\* of the text fragments of the artifact-update and status-update events,
\* with surrounding whitespace trimmed.
C21_ReplyIsTrimmedConcatenation ==
    s_pc = "returned" =>
        stream_response = Strip(JoinChunks(StreamedFragments(received)))

\* C21 amended: the returned text is that trimmed concatenation, or, when
\* the trimmed concatenation is empty, the text "No response from agent.".
C21_ReplyIsTrimmedConcatenationOrDefault ==
    s_pc = "returned" =>
        /\ Strip(JoinChunks(StreamedFragments(received))) # <<>> =>
              stream_response = Strip(JoinChunks(StreamedFragments(received)))
        /\ Strip(JoinChunks(StreamedFragments(received))) = <<>> =>
              stream_response = <<"No response from agent.">>

\* C21 witness: fragments of a status update and of an artifact update,
\* between events that contribute nothing, were joined and trimmed.
C21_Witness ==
    /\ s_pc = "returned"
    /\ Len(received) = 3
    /\ received[1].kind = "status" /\ received[1].has_message
    /\ received[2].kind = "message"
    /\ received[3].kind = "artifact"
    /\ stream_response = <<"b", " ", "a">>

\* C22: the initialisation body is racy. Nothing in it looks at the shared
\* attributes again once the check has passed: a thread that is past the
\* check sets the counter to its base and installs a new lock object
\* whatever another thread has done since, and the counter is set while
\* the lock is still absent.
C22_InitBodyUnguarded ==
    [][\A t \in Tasks :
          /\ (pc[t] = "init_port" /\ pc'[t] = "init_lock") =>
                 (next_port' = mcp_base_port[t] /\ port_lock' = port_lock)
          /\ (pc[t] = "init_lock" /\ pc'[t] = "lock") => port_lock' = t]_vars

\* C22 witness: the body ran twice; a thread holds the lock object the
\* first initialisation made while the class attribute names the one the
\* second initialisation made, and the counter is back at a base.
C22_Witness ==
    \E t \in Tasks :
        /\ held[t] # None
        /\ port_lock # None
        /\ held[t] # port_lock
        /\ next_port = mcp_base_port[port_lock]
        /\ port[t] # None

\* C23: when the container does not run, a command handed to docker exec
\* comes back with returncode -1.
C23_UnreachableReturnsMinusOne ==
    [][(ex_pc = "wait" /\ ex_pc' = "idle" /\ ex_status' = "returned"
            /\ ~container_running) =>
          ex_result'.returncode = -1]_vars

\* C24: once the tool server has answered a call with its unknown-tool
\* error content and call_mcp_tool is over, solve has not raised and the
\* transcript ends with, or continues after, a tool-result turn.
C24_UnknownToolIsFailedResult ==
    (ex_name \notin {"", "execute_bash_command"} /\ ex_status = "returned"
        /\ l_pc \notin {"absent", "call"}) =>
        /\ l_pc # "raised"
        /\ \E i \in 1 .. Len(messages) : messages[i].role = "tool"

\* C25: Stopped is terminal. Once shutdown() has been called on a server,
\* a run-loop that does not listen never starts to listen, and is_ready(),
\* once it would answer false, never answers true again.
C25_StoppedIsTerminal ==
    [][\A t \in Tasks :
          shutdown_state[t] # "none" =>
              /\ ~Serving(t) => ~Serving(t)'
              /\ ~is_ready(t) => ~is_ready(t)']_vars

\* C26: while the agent works on the message of task a, every server that
\* answers tool invocations at the address given in that message runs them
\* in the container of a.
C26_InvocationsStayInOwnContainer ==
    [][\A a \in Tasks :
          (pc[a] = "send" /\ sent'[a]) =>
              \A s \in Tasks :
                  (Serving(s) /\ port[s] = port[a]) =>
                      container_name(s) = container_name(a)]_vars

C28_NothingAfterDone ==
    [][env_done =>
          /\ sent_count' = sent_count
          /\ step_count' = step_count
          /\ reward' = reward
          /\ g_pc' \in {"break", "returned"}]_vars

\* C28 witness: the second step signalled done with reward 1, with turns
\* left, and the call returned.
C28_Witness ==
    /\ g_pc = "returned"
    /\ env_done
    /\ step_count = 2
    /\ sent_count = 2
    /\ sent_count < max_num_steps
    /\ reward = 1

\* C29: a step is applied to the environment for a reply only if the reply
\* has exactly one text part with exactly one decision block that decodes
\* to an action; for a reply with zero or several text parts, with no or
\* several decision blocks or with a malformed payload the call raises and
\* the environment is left as it was.
C29_OnlyWellFormedRepliesAccepted ==
    [][(g_pc = "await" /\ g_pc' # "await") =>
          /\ step_count' # step_count =>
                /\ white_reply'.kind = "message"
                /\ white_reply'.text_parts = 1
                /\ white_reply'.decision \in {"respond", "tool"}
          /\ (\/ white_reply'.text_parts # 1
              \/ white_reply'.decision \in {"none", "several", "malformed"}) =>
                /\ g_pc' = "raised"
                /\ step_count' = step_count
                /\ reward' = reward
                /\ env_done' = env_done
                /\ info' = info]_vars

\* C29 witness: after an accepted reply, a reply with two text parts and
\* a well-formed action was refused.
C29_Witness ==
    /\ g_pc = "raised"
    /\ step_count = 1
    /\ sent_count = 2
    /\ white_reply.kind = "message"
    /\ white_reply.text_parts = 2
    /\ white_reply.decision = "respond"
    /\ solve_error = "text_parts"

\* The turn of the latest applied step whose info has the key k; 0 if no
\* applied step supplied it.
RECURSIVE LatestSupplier(_, _)
LatestSupplier(k, n) ==
    IF n = 0 THEN 0
    ELSE IF applied_infos[n][k] # Absent THEN n
    ELSE LatestSupplier(k, n - 1)

\* C30: the info map equals the reset info overlaid, in turn order, with
\* the info of every applied step: each key has the value of the latest
\* step that supplied it, else the value of the reset info, and a key the
\* reset or a step supplied is present.
C30_InfoIsOverlay ==
    /\ Len(applied_infos) = step_count
    /\ \A k \in Keys :
          /\ LatestSupplier(k, step_count) = 0 => info[k] = reset_info[k]
          /\ LatestSupplier(k, step_count) # 0 =>
                info[k] = applied_infos[LatestSupplier(k, step_count)][k]
          /\ (\/ reset_info[k] # Absent
              \/ \E i \in 1 .. step_count : applied_infos[i][k] # Absent) =>
                info[k] # Absent

\* C30 witness: a returned call in which a key of the reset info was
\* overwritten by the first step and again by the last, another key was
\* supplied by the first step only, and the last step supplied one key.
C30_Witness ==
    /\ g_pc = "returned"
    /\ step_count = 3
    /\ reset_info = [k \in Keys |-> IF k = "task" THEN "x" ELSE Absent]
    /\ applied_infos[1] = [k \in Keys |-> "y"]
    /\ applied_infos[2] = [k \in Keys |-> Absent]
    /\ applied_infos[3] = [k \in Keys |-> IF k = "task" THEN "x" ELSE Absent]
    /\ info = [k \in Keys |-> IF k = "task" THEN "x" ELSE "y"]

\* C31: every message sent after a turn is framed as a tool call result
\* exactly when the action applied in that turn was not the respond
\* action, as a user message exactly when it was, and carries the
\* observation of that turn's step.
C31_FramedByAppliedAction ==
    [][(sent_count >= 1 /\ sent_count' = sent_count + 1) =>
          /\ sent_message'.frame = "tool_call_result" <=> action_name # "respond"
          /\ sent_message'.frame = "user_message" <=> action_name = "respond"
          /\ sent_message'.observation = observation]_vars

\* C31 witness: after a tool action, and then after a respond action with
\* another observation, the third message went out as a user message.
C31_Witness ==
    /\ g_pc = "await"
    /\ sent_count = 3
    /\ step_count = 2
    /\ action_name = "respond"
    /\ observation = "obs_b"
    /\ sent_message = [frame |-> "user_message", observation |-> "obs_b"]

\* The place of the last assistant turn in the transcript; 0 without one.
RECURSIVE LastAssistant(_)
LastAssistant(n) ==
    IF n = 0 THEN 0
    ELSE IF messages[n].role = "assistant" THEN n
    ELSE LastAssistant(n - 1)

\* C32: once the loop is through with the tool calls of an iteration, the
\* k calls the backend requested in it were all invoked and the transcript
\* has, after the assistant turn, exactly k tool-result turns, one per
\* requested call and in the requested order.
C32_EveryRequestedCallAnswered ==
    (l_pc \notin {"absent", "tools", "call"} /\ LastAssistant(Len(messages)) # 0) =>
        LET a == LastAssistant(Len(messages))
        IN /\ Len(messages) - a = Len(messages[a].tool_calls)
           /\ \A j \in 1 .. Len(messages) - a :
                 /\ messages[a + j].role = "tool"
                 /\ messages[a + j].tool_call_id = messages[a].tool_calls[j].id

\* C33 as claimed: in a session that connected and solved, the tool
\* catalog was requested exactly once.
C33_CatalogRequestedOnce ==
    (w_pc = "done" /\ l_pc \notin {"absent", "unentered"}) => catalog_requests = 1

\* C33 amended: the tool catalog is requested once when the connection is
\* set up and once more when solve begins, and by nothing else; the
\* catalog solve converted is there, unchanged, in every iteration of the
\* loop.
C33_CatalogRequestedOnConnectAndBySolve ==
    [][/\ catalog_requests' # catalog_requests =>
             /\ w_pc \in {"list_tools", "solve"}
             /\ w_pc' # w_pc
             /\ catalog_requests' = catalog_requests + 1
       /\ l_pc' \notin {"absent", "unentered"} => catalog_requests' = 2
       /\ l_pc' \in {"llm", "tools", "call", "returned"} => openai_tools' = "catalog"
       /\ l_pc \in {"llm", "tools", "call"} => openai_tools' = openai_tools]_vars

\* C33 witness: a session of two iterations with a tool invocation that
\* ended with the answer of the backend.
C33_Witness ==
    /\ w_pc = "done"
    /\ w_outcome = "completed"
    /\ iteration = 2
    /\ tool_invocations >= 1
    /\ catalog_requests = 2
    /\ openai_tools = "catalog"

\* C34: when execute is over, no transport stream and no protocol session
\* that MCPConnection opened is still open.
C34_EverythingOpenedIsClosed ==
    w_pc = "done" => (sse_context # "open" /\ session # "open")

\* C35: shutdown() on a server without a uvicorn server returns without
\* raising and changes nothing of the server, should_exit included; a
\* second shutdown() after one that returned returns without raising and
\* changes nothing of the server either.
C35_ShutdownNoOps ==
    [][\A t \in Tasks :
          /\ (pc[t] = "finally" /\ ~uvicorn_server[t] /\ pc'[t] # "finally") =>
                /\ shutdown_state'[t] = "returned"
                /\ serverVars' = serverVars
                /\ raised' = raised
          /\ (shutdown_state[t] = "returned" /\ shutdown_state'[t] # "returned") =>
                /\ shutdown_state'[t] = "returned_again"
                /\ serverVars' = serverVars
                /\ raised' = raised]_vars

\* C35 witness: a server that was ready and was stopped, its thread
\* ended, has been shut down a second time.
C35_Witness ==
    \E t \in Tasks :
        /\ shutdown_state[t] = "returned_again"
        /\ saw_ready[t]
        /\ server_thread[t] = "exited"
        /\ should_exit[t]

\* C36: the shared counter is initialised once: no constructor assigns a
\* base to a counter that is already set, and once set the counter only
\* moves by the increments of the allocation step.
C36_CounterInitialisedOnce ==
    [][next_port # None =>
          /\ \A t \in Tasks : ~(pc[t] = "init_port" /\ pc'[t] = "init_lock")
          /\ next_port' \in {next_port, next_port + 1}]_vars

\* C37 as claimed: a result is UNKNOWN_AGENT_ERROR exactly when the
\* response contains "Error:", and a task whose sending failed, by an
\* exception converted to a response or otherwise, ends with that failure
\* reported, never with perform_task raising.
C37_SendFailuresAlwaysReported ==
    \A t \in Tasks :
        /\ result[t] \in {"UNKNOWN_AGENT_ERROR", "NONE"} =>
              (result[t] = "UNKNOWN_AGENT_ERROR" <=>
                   \E i \in 1 .. Len(response[t]) : response[t][i] = "Error:")
        /\ (pc[t] = "done" /\ sent[t] /\ shutdown_state[t] = "returned"
                /\ response[t] \in {<<>>, ExceptionText}) =>
              result[t] = "UNKNOWN_AGENT_ERROR"

\* C37 amended: a result is UNKNOWN_AGENT_ERROR exactly when the response
\* contains "Error:"; an Exception raised while sending becomes a response
\* starting with "Error:" and is reported as that failure unless writing
\* the interaction log raises afterwards; a send that leaves no response
\* raised what is no Exception, and perform_task raises it.
C37_ExceptionsOfSendReported ==
    \A t \in Tasks :
        /\ result[t] \in {"UNKNOWN_AGENT_ERROR", "NONE"} =>
              (result[t] = "UNKNOWN_AGENT_ERROR" <=>
                   \E i \in 1 .. Len(response[t]) : response[t][i] = "Error:")
        /\ (pc[t] = "done" /\ sent[t] /\ shutdown_state[t] = "returned"
                /\ response[t] = ExceptionText /\ ~raised[t]) =>
              result[t] = "UNKNOWN_AGENT_ERROR"
        /\ (pc[t] = "done" /\ sent[t] /\ response[t] = <<>>) =>
              (raised[t] /\ result[t] = "raised")

\* C37 witness: a task whose sending raised an Exception ended with
\* UNKNOWN_AGENT_ERROR returned.
C37_Witness ==
    \E t \in Tasks :
        /\ pc[t] = "done"
        /\ sent[t]
        /\ response[t] = ExceptionText
        /\ ~raised[t]
        /\ result[t] = "UNKNOWN_AGENT_ERROR"
        /\ shutdown_state[t] = "returned"

\* C38: the address the solver extracts from the task description is the
\* address of the tool server created for the task, whatever the
\* instruction.
C38_ExtractedUrlIsServerAddress ==
    u_pc \in {"done", "not_found"} =>
        (u_pc = "done" /\ mcp_url = <<"http://localhost:", ToString(leased_port)>>)

\* The place of the first assistant turn after place a; one past the end
\* of the transcript without one.
RECURSIVE NextAssistant(_)
NextAssistant(a) ==
    IF a >= Len(messages) THEN Len(messages) + 1
    ELSE IF messages[a + 1].role = "assistant" THEN a + 1
    ELSE NextAssistant(a + 1)

\* C39: in every state of the tool-call loop the transcript is well
\* formed: it starts with the system turn and the user turn, the third
\* turn is an assistant turn, every assistant turn that is followed by
\* another assistant turn has between the two exactly one tool-result turn
\* per call it requested, in the requested order and with that call's id,
\* and the tool-result turns after the last assistant turn answer the
\* first of its calls in the same way; so no tool-result turn answers a
\* call that was not requested.
C39_TranscriptWellFormed ==
    l_pc \notin {"absent", "unentered"} =>
        /\ Len(messages) >= 2
        /\ messages[1].role = "system"
        /\ messages[2].role = "user"
        /\ Len(messages) >= 3 => messages[3].role = "assistant"
        /\ \A a \in 3 .. Len(messages) :
              /\ messages[a].role \in {"assistant", "tool"}
              /\ messages[a].role = "assistant" =>
                    LET k == Len(messages[a].tool_calls)
                        n == NextAssistant(a)
                    IN /\ n - a - 1 <= k
                       /\ n <= Len(messages) => n - a - 1 = k
                       /\ \A j \in 1 .. n - a - 1 :
                             messages[a + j].tool_call_id
                                 = messages[a].tool_calls[j].id

\* C39 witness: an iteration that requested two calls had both answered,
\* and the reply of the next iteration is in the transcript.
C39_Witness ==
    /\ l_pc \in {"tools", "returned"}
    /\ Len(messages) = 6
    /\ Len(messages[3].tool_calls) = 2
    /\ messages[4].role = "tool"
    /\ messages[5].role = "tool"
    /\ messages[4].tool_call_id # messages[5].tool_call_id
    /\ messages[6].role = "assistant"

\* C40: an invocation of execute_bash_command whose command is missing or
\* empty is answered, without raising, by exactly one content item, the
\* error text "Error: Command is required", and _execute_bash_command is
\* not entered: nothing is run in the container.
C40_MissingCommandRunsNothing ==
    (/\ ex_name = "execute_bash_command"
     /\ ~ex_arguments.has_command \/ ex_arguments.command = "") =>
        /\ ex_status = "returned"
        /\ ex_pc = "idle"
        /\ ~ex_ran
        /\ ex_command = ""
        /\ ex_result = NoResult
        /\ Len(ex_content) = 1
        /\ ex_content[1].kind = "error"
        /\ ex_content[1].message = "Error: Command is required"

\* C40 witness: execute_bash_command was invoked with the key "command"
\* present and its value empty, where the container runs, and was refused.
C40_Witness ==
    /\ ex_name = "execute_bash_command"
    /\ ex_arguments.has_command
    /\ ex_arguments.command = ""
    /\ docker_installed
    /\ container_running
    /\ ex_status = "returned"
    /\ ex_content[1].kind = "error"

====
